---- MODULE Spec2Model ----
(***************************************************************************)
(* The Action Registry of src/services/actionRegistry.ts as a state        *)
(* machine: the live (realtime) and durable (document) user stores, the    *)
(* settings singleton, the interaction-log collection, the wall clock, and *)
(* the handlers of ActionRegistry run by concurrent callers.  Every await  *)
(* of a handler on a store call is one step, so the handlers interleave    *)
(* exactly at their I/O boundaries; a store call resolves or rejects.      *)
(***************************************************************************)
EXTENDS Integers, Sequences, FiniteSets, TLC

VARIABLES
    live,       \* realtime tree, users/<id>: a function from the ids that have a record
    durable,    \* document collection "users": likewise
    settings,   \* realtime tree, system_settings: <<>> when absent, else <<record>>
    now,        \* the wall clock, in ticks
    calls,      \* per caller: the handler invocation it runs, with its locals
    nCalls,     \* invocations started so far
    everHist,   \* history: the <<user id, entry>> pairs ever stored in a live history
    deleted,    \* history: the user ids whose live record a remove has taken away
    hadSettings, \* history: whether the settings singleton existed before the registry ran
    logs,       \* document collection "ai_interactions": the set of interaction-log entries
    ai,         \* the StudentAiAssistant component: its props and its state
    btn         \* the SpeakButton component: its state and its timers

vars == <<live, durable, settings, now, calls, nCalls, everHist, deleted, hadSettings, logs, ai, btn>>

----------------------------------------------------------------------------
(* Bounds of the model. *)

MaxCalls == 2
MaxTicks == 1
TicksPerDay == 2

Procs == {"p1", "p2"}
UserIds == {"u1", "u2", "u3"}

----------------------------------------------------------------------------
(* Values.  A JavaScript value that may be undefined is a record with a     *)
(* kind, so that values of one field are comparable.                        *)

\* an argument the caller left out: the template `users/${userId}` reads users/undefined
MissingArg == "undefined"
ArgIds == UserIds \cup {MissingArg}

Undefined == [kind |-> "undefined", t |-> 0]
NullDate == [kind |-> "null", t |-> 0]
DateAt(t) == [kind |-> "date", t |-> t]
Lifetime == [kind |-> "LIFETIME", t |-> 0]
toISOString(d) == [kind |-> "iso", t |-> d.t]

NoArray == [kind |-> "undefined", items |-> <<>>]
Arr(s) == [kind |-> "array", items |-> s]
\* (x || []) : an array, even an empty one, is truthy
OrEmpty(a) == IF a.kind = "undefined" THEN <<>> ELSE a.items

Plans == {"WEEKLY", "MONTHLY", "YEARLY", "LIFETIME"}
Levels == {"BASIC", "ULTRA"}

----------------------------------------------------------------------------
(* The calendar of Date.getDate / Date.setDate.  Day 0 is 1 January of a    *)
(* common year; the window of the model holds no leap day.                 *)

MonthLengths == <<31, 28, 31, 30, 31, 30, 31, 31, 30, 31, 30, 31>>

Day(t) == t \div TicksPerDay
TimeOfDay(t) == t % TicksPerDay

RECURSIVE MonthStartFrom(_, _, _)
MonthStartFrom(d, start, m) ==
    IF d < start + MonthLengths[m] THEN start
    ELSE MonthStartFrom(d, start + MonthLengths[m], (m % 12) + 1)

\* the day number of the first day of the month that holds day d
MonthStart(d) == MonthStartFrom(d, 0, 1)

\* Date.prototype.getDate: the day of the month, from 1
getDate(t) == Day(t) - MonthStart(Day(t)) + 1

\* Date.prototype.setDate(k): day k of the date's own month (running over into
\* the following months), the time of day kept
setDate(t, k) == (MonthStart(Day(t)) + k - 1) * TicksPerDay + TimeOfDay(t)

\* the clock starts in the last tick of 31 January; the next tick is 1 February
StartClock == 30 * TicksPerDay + (TicksPerDay - 1)
MaxClock == StartClock + MaxTicks
\* what a read of the clock can return when the read before it returned t: time
\* passes between any two reads, also between two statements of one block
LaterReads(t) == {t2 \in {t, t + 1} : t2 <= MaxClock}

----------------------------------------------------------------------------
(* Records of the stores before the registry runs. *)

OldEntry ==
    [id |-> 0, tier |-> "MONTHLY", level |-> "BASIC",
     startDate |-> toISOString(DateAt(0)), endDate |-> toISOString(DateAt(StartClock)),
     durationHours |-> 0, price |-> 0, originalPrice |-> 0,
     isFree |-> FALSE, grantSource |-> "PURCHASE", grantedBy |-> "USER"]

OldMsg == [id |-> 0, text |-> "welcome", date |-> toISOString(DateAt(0)),
           read |-> TRUE, type |-> "TEXT"]

\* u1: a premium user with a history, an inbox and an end date
User1 ==
    [id |-> "u1", name |-> "A", email |-> "a@x", role |-> "STUDENT",
     credits |-> 10, isLocked |-> FALSE,
     isPremium |-> TRUE, subscriptionTier |-> "MONTHLY", subscriptionLevel |-> "BASIC",
     subscriptionEndDate |-> toISOString(DateAt(StartClock)),
     subscriptionHistory |-> Arr(<<OldEntry>>), inbox |-> Arr(<<OldMsg>>),
     grantedByAdmin |-> FALSE]

\* u2: a free user whose optional fields are absent
User2 ==
    [id |-> "u2", name |-> "B", email |-> "b@x", role |-> "STUDENT",
     credits |-> 0, isLocked |-> TRUE,
     isPremium |-> FALSE, subscriptionTier |-> "FREE", subscriptionLevel |-> "NONE",
     subscriptionEndDate |-> Undefined,
     subscriptionHistory |-> NoArray, inbox |-> NoArray,
     grantedByAdmin |-> FALSE]

\* u3 has no record in either store
InitUsers == [u \in {"u1", "u2"} |-> IF u = "u1" THEN User1 ELSE User2]

Settings0 == [noticeText |-> "", maintenanceMode |-> FALSE, themeColor |-> "blue"]

\* an interaction-log entry of collection "ai_interactions"; timestamps are distinct
LogEntry(t) == [id |-> t, type |-> "STUDENT_CHAT", timestamp |-> toISOString(DateAt(t))]
Logs0 == {LogEntry(1), LogEntry(2), LogEntry(3)}

----------------------------------------------------------------------------
(* Store primitives. *)

\* one path shared by every call instead of the path of the call's own userId
userRefShared(userId) == "u1"

\* ref(rtdb, `users/${userId}`) and doc(db, "users", userId): the key of a user
userRef(userId) == userId

\* the key of the settings singleton, ref(rtdb, 'system_settings')
SettingsKey == "system_settings"

Exists(store, k) == k \in DOMAIN store
Put(store, k, v) == [x \in DOMAIN store \cup {k} |-> IF x = k THEN v ELSE store[x]]
Remove(store, k) == [x \in DOMAIN store \ {k} |-> store[x]]

\* the <<user id, entry>> pairs of the histories a store holds
HistPairs(store) ==
    UNION {{<<k, OrEmpty(store[k].subscriptionHistory)[i]>> :
              i \in 1..Len(OrEmpty(store[k].subscriptionHistory))} : k \in DOMAIN store}

\* the spread the other way round, { ...updates, ...current }: the stored value wins
MergeCurrentWins(current, updates) ==
    [f \in DOMAIN current \cup DOMAIN updates |->
        IF f \in DOMAIN current THEN current[f] ELSE updates[f]]

\* { ...current, ...updates } : a key of updates wins, also with the value undefined
Merge(current, updates) ==
    [f \in DOMAIN current \cup DOMAIN updates |->
        IF f \in DOMAIN updates THEN updates[f] ELSE current[f]]

\* saveUserToLive(user): the whole record, at the live path of the record's id
saveUserToLive(store, user) == Put(store, userRef(user.id), user)

\* saveSystemSettings(s): the whole singleton
saveSystemSettings(s) == <<s>>

----------------------------------------------------------------------------
(* Handler invocations. *)

NoRec == [id |-> "none"]
NoUpd == [none |-> TRUE]
Pending == [ok |-> FALSE, msg |-> "pending"]
Ok(m) == [ok |-> TRUE, msg |-> m]
Err(m) == [ok |-> FALSE, msg |-> m]

\* a caller with no invocation.  uid is the userId argument (SettingsKey for a
\* settings handler); pre and overlap are history: the live record of uid when the
\* invocation started, and whether another invocation ran during it ("same": one
\* with the same uid); tried is history: the store calls the invocation has issued;
\* out is the sequence a listing handler returns
Idle ==
    [op |-> "none", pc |-> "idle", uid |-> "none", upd |-> NoUpd,
     plan |-> "none", level |-> "none", text |-> "none",
     t0 |-> 0, endDate |-> NullDate, entry |-> NoRec,
     user |-> NoRec, cur |-> NoRec, merged |-> NoRec,
     result |-> Pending, reads |-> 0, writes |-> 0,
     pre |-> <<>>, overlap |-> "none",
     filter |-> "none", limit |-> 0, subject |-> "none", count |-> 0,
     tried |-> {}, out |-> <<>>]

\* the updates an administrator passes to updateUser
UserUpdates ==
    {[credits |-> 500],
     [credits |-> 500, isLocked |-> TRUE],
     [subscriptionHistory |-> Arr(<<>>)]}

SettingsUpdates == {[maintenanceMode |-> TRUE], [noticeText |-> "hello", themeColor |-> "red"]}

\* (plan, level) as the caller passes them: the declared values and two others
GrantArgs ==
    {<<"WEEKLY", "BASIC">>, <<"MONTHLY", "ULTRA">>, <<"YEARLY", "BASIC">>,
     <<"LIFETIME", "ULTRA">>, <<"DAILY", "BASIC">>, <<"WEEKLY", "GOLD">>}

Texts == {"hi"}

\* a final else that still sets a date, so that LIFETIME ends like YEARLY
EndDateOfAlwaysDated(plan, tNow, tEnd) ==
    IF plan = "WEEKLY" THEN DateAt(setDate(tEnd, getDate(tNow) + 7))
    ELSE IF plan = "MONTHLY" THEN DateAt(setDate(tEnd, getDate(tNow) + 30))
    ELSE DateAt(setDate(tEnd, getDate(tNow) + 365))

\* lines 98-101: the end date from the plan
EndDateOf(plan, tNow, tEnd) ==
    IF plan = "WEEKLY" THEN DateAt(setDate(tEnd, getDate(tNow) + 7))
    ELSE IF plan = "MONTHLY" THEN DateAt(setDate(tEnd, getDate(tNow) + 30))
    ELSE IF plan = "YEARLY" THEN DateAt(setDate(tEnd, getDate(tNow) + 365))
    ELSE NullDate

\* lines 103-115
HistoryEntry(plan, level, tNow, endDate, tId) ==
    [id |-> tId, tier |-> plan, level |-> level,
     startDate |-> toISOString(DateAt(tNow)),
     endDate |-> IF endDate.kind # "null" THEN toISOString(endDate) ELSE Lifetime,
     durationHours |-> 0, price |-> 0, originalPrice |-> 0,
     isFree |-> TRUE, grantSource |-> "ADMIN", grantedBy |-> "AI_AGENT"]

\* updates that carry the new history and leave the tier to a later write
GrantUpdatesKeepsTier(c, user) ==
    [subscriptionLevel |-> c.level,
     subscriptionEndDate |->
         IF c.endDate.kind # "null" THEN toISOString(c.endDate) ELSE Undefined,
     isPremium |-> TRUE,
     subscriptionHistory |-> Arr(<<c.entry>> \o OrEmpty(user.subscriptionHistory)),
     grantedByAdmin |-> TRUE]

\* lines 122-131: the updates grantSubscription passes to updateUser
GrantUpdates(c, user) ==
    [subscriptionTier |-> c.plan,
     subscriptionLevel |-> c.level,
     subscriptionEndDate |->
         IF c.endDate.kind # "null" THEN toISOString(c.endDate) ELSE Undefined,
     isPremium |-> TRUE,
     subscriptionHistory |-> Arr(<<c.entry>> \o OrEmpty(user.subscriptionHistory)),
     grantedByAdmin |-> TRUE]

\* lines 157-163
InboxMessage(text, tId, tDate) ==
    [id |-> tId, text |-> text, date |-> toISOString(DateAt(tDate)),
     read |-> FALSE, type |-> "TEXT"]

\* the message put after the inbox instead of before it
InboxUpdatesAppends(msg, user) == [inbox |-> Arr(OrEmpty(user.inbox) \o <<msg>>)]

\* line 165
InboxUpdates(msg, user) == [inbox |-> Arr(<<msg>> \o OrEmpty(user.inbox))]

\* the settings prop of the assistant when the parent passes none (settings?.x)
NoSettings == [defined |-> FALSE]

\* what the last handleSend did: nothing yet
NoRun == [outcome |-> "none", count |-> 0, limit |-> 0]

\* StudentAiAssistant as mounted with props user and settings: useState('') for
\* input, useState(false) for isLoading.  messages holds the kinds of the chat
\* messages added, pending the saveUserToLive calls issued and not yet settled,
\* sent the questions passed to generateCustomNotes, awaiting whether that call
\* is outstanding; nSends and run are history
Assistant(user, st) ==
    [user |-> user, settings |-> st, input |-> "", isLoading |-> FALSE,
     messages |-> <<>>, pending |-> <<>>, sent |-> 0, awaiting |-> FALSE,
     nSends |-> 0, run |-> NoRun]

\* no assistant is mounted
NoAssistant == Assistant(NoRec, NoSettings)

\* SpeakButton as mounted: useState(false) for isSpeaking.  t is the time in
\* seconds, timers the setTimeout callbacks not yet run, resolving the clicks
\* whose speakText has not resolved, utterance the click whose text the speech
\* engine speaks (0: none); clicks, on (the click that turned the indicator on)
\* and onAt (the time of that click) are history
SpeakButton ==
    [isSpeaking |-> FALSE, t |-> 0, clicks |-> 0, on |-> 0, onAt |-> 0,
     resolving |-> {}, timers |-> {}, utterance |-> 0]

Init ==
    /\ live = InitUsers
    /\ durable = InitUsers
    /\ settings \in {<<>>, <<Settings0>>}
    /\ now = StartClock
    /\ calls = [p \in Procs |-> Idle]
    /\ nCalls = 0
    /\ everHist = HistPairs(InitUsers)
    /\ deleted = {}
    /\ hadSettings = (settings # <<>>)
    /\ logs = Logs0
    /\ ai = NoAssistant
    /\ btn = SpeakButton

InFlight(c) == c.pc \notin {"idle", "done"}

\* a caller is free between invocations; the callers are interchangeable, so the
\* first invocation of a run is p1's
Free(p) ==
    /\ ~InFlight(calls[p])
    /\ nCalls < MaxCalls
    /\ p = "p1" \/ calls["p1"].pc # "idle"

\* a caller that invokes one handler in the whole run
FreeOnce(p) ==
    /\ calls[p].pc = "idle"
    /\ p = "p1" \/ calls["p1"].pc # "idle"

Worse(a, b) == IF "same" \in {a, b} THEN "same" ELSE IF "other" \in {a, b} THEN "other" ELSE "none"
Rel(c, d) == IF c.uid = d.uid THEN "same" ELSE "other"

\* caller p starts invocation c
Start(p, c) ==
    /\ calls' =
         [q \in Procs |->
            IF q = p
            THEN [c EXCEPT
                    !.pre = IF Exists(live, userRef(c.uid)) THEN <<live[userRef(c.uid)]>> ELSE <<>>,
                    !.overlap = IF \E r \in Procs \ {p} :
                                      InFlight(calls[r]) /\ calls[r].uid = c.uid
                                THEN "same"
                                ELSE IF \E r \in Procs \ {p} : InFlight(calls[r])
                                THEN "other" ELSE "none"]
            ELSE IF InFlight(calls[q])
            THEN [calls[q] EXCEPT !.overlap = Worse(@, Rel(calls[q], c))]
            ELSE calls[q]]
    /\ nCalls' = nCalls + 1

\* ActionRegistry.deleteUser(userId)
InvokeDeleteUser(p) ==
    /\ \E u \in ArgIds :
         Start(p, [Idle EXCEPT !.op = "deleteUser", !.uid = u, !.pc = "del_doc"])
    /\ UNCHANGED <<live, durable, settings, now, everHist, deleted, hadSettings, logs, ai, btn>>

\* ActionRegistry.updateUser(userId, updates)
InvokeUpdateUser(p) ==
    /\ \E u \in ArgIds, upd \in UserUpdates :
         Start(p, [Idle EXCEPT !.op = "updateUser", !.uid = u, !.upd = upd,
                               !.pc = "upd_get"])
    /\ UNCHANGED <<live, durable, settings, now, everHist, deleted, hadSettings, logs, ai, btn>>

\* the reasons an administrator gives for a ban
Reasons == {"spam", "abuse"}

\* updates that also carry the reason into the record
BanUpdatesKeepsReason(reason) == [isLocked |-> TRUE, lockReason |-> reason]

\* line 87: the updates banUser passes to updateUser; reason is not used
BanUpdates(reason) == [isLocked |-> TRUE]

\* line 91: the updates unbanUser passes to updateUser
UnbanUpdates == [isLocked |-> FALSE]

\* ActionRegistry.banUser(userId, reason): updateUser(userId, { isLocked: true })
InvokeBanUser(p) ==
    /\ \E u \in ArgIds, reason \in Reasons :
         Start(p, [Idle EXCEPT !.op = "banUser", !.uid = u, !.text = reason,
                               !.upd = BanUpdates(reason), !.pc = "upd_get"])
    /\ UNCHANGED <<live, durable, settings, now, everHist, deleted, hadSettings, logs, ai, btn>>

\* ActionRegistry.unbanUser(userId): updateUser(userId, { isLocked: false })
InvokeUnbanUser(p) ==
    /\ \E u \in ArgIds :
         Start(p, [Idle EXCEPT !.op = "unbanUser", !.uid = u,
                               !.upd = UnbanUpdates, !.pc = "upd_get"])
    /\ UNCHANGED <<live, durable, settings, now, everHist, deleted, hadSettings, logs, ai, btn>>

\* ActionRegistry.grantSubscription(userId, plan, level), lines 95-118: three
\* reads of the clock (new Date(), new Date(), Date.now()), then the get is issued
InvokeGrantSubscription(p) ==
    /\ \E u \in ArgIds, a \in GrantArgs, tNow \in LaterReads(now) :
         \E tEnd \in LaterReads(tNow) : \E tId \in LaterReads(tEnd) :
            LET endDate == EndDateOf(a[1], tNow, tEnd) IN
            /\ Start(p, [Idle EXCEPT !.op = "grantSubscription", !.uid = u,
                                     !.plan = a[1], !.level = a[2], !.t0 = tNow,
                                     !.endDate = endDate,
                                     !.entry = HistoryEntry(a[1], a[2], tNow, endDate, tId),
                                     !.pc = "grant_get"])
            /\ now' = tId
    /\ UNCHANGED <<live, durable, settings, everHist, deleted, hadSettings, logs, ai, btn>>

\* ActionRegistry.sendInboxMessage(userId, text)
InvokeSendInboxMessage(p) ==
    /\ \E u \in ArgIds, x \in Texts :
         Start(p, [Idle EXCEPT !.op = "sendInboxMessage", !.uid = u, !.text = x,
                               !.pc = "send_get"])
    /\ UNCHANGED <<live, durable, settings, now, everHist, deleted, hadSettings, logs, ai, btn>>

\* ActionRegistry.updateSystemSettings(updates)
InvokeUpdateSystemSettings(p) ==
    /\ \E upd \in SettingsUpdates :
         Start(p, [Idle EXCEPT !.op = "updateSystemSettings", !.uid = SettingsKey,
                               !.upd = upd, !.pc = "set_get"])
    /\ UNCHANGED <<live, durable, settings, now, everHist, deleted, hadSettings, logs, ai, btn>>

CallDeleteUser(p) == Free(p) /\ InvokeDeleteUser(p)
CallUpdateUser(p) == Free(p) /\ InvokeUpdateUser(p)
CallBanUser(p) == Free(p) /\ InvokeBanUser(p)
CallUnbanUser(p) == Free(p) /\ InvokeUnbanUser(p)
CallGrantSubscription(p) == Free(p) /\ InvokeGrantSubscription(p)
CallSendInboxMessage(p) == Free(p) /\ InvokeSendInboxMessage(p)
CallUpdateSystemSettings(p) == Free(p) /\ InvokeUpdateSystemSettings(p)

\* one grantSubscription per caller: the two run side by side or one after the other
GrantOnce(p) == FreeOnce(p) /\ InvokeGrantSubscription(p)

----------------------------------------------------------------------------
(* The steps of the handlers: one per store round trip. *)

\* the handler returns or throws: its locals are gone, its arguments and outcome stay
Finish(c, r) ==
    [Idle EXCEPT !.op = c.op, !.uid = c.uid, !.plan = c.plan, !.level = c.level,
                 !.pc = "done", !.result = r, !.reads = c.reads, !.writes = c.writes,
                 !.overlap = c.overlap, !.text = c.text, !.filter = c.filter,
                 !.limit = c.limit, !.count = c.count, !.tried = c.tried, !.out = c.out]

\* deleteUser line 59: deleteDoc resolves whether or not the document exists
DeleteDoc(p) ==
    /\ calls[p].pc = "del_doc"
    /\ durable' = Remove(durable, userRef(calls[p].uid))
    /\ calls' = [calls EXCEPT ![p].pc = "del_rt", ![p].writes = @ + 1,
                               ![p].tried = @ \cup {"deleteDoc"}]
    /\ UNCHANGED <<live, settings, now, nCalls, everHist, deleted, hadSettings, logs, ai, btn>>

\* deleteUser lines 60-61: remove resolves whether or not the path holds a value
RemoveLive(p) ==
    /\ calls[p].pc = "del_rt"
    /\ live' = Remove(live, userRef(calls[p].uid))
    /\ deleted' = deleted \cup {userRef(calls[p].uid)}
    /\ calls' = [calls EXCEPT
                   ![p] = Finish([@ EXCEPT !.writes = @ + 1, !.tried = @ \cup {"remove"}],
                                 Ok("User deleted successfully"))]
    /\ UNCHANGED <<durable, settings, now, nCalls, everHist, hadSettings, logs, ai, btn>>

\* grantSubscription lines 118-124: the first read, the new history, then updateUser
GrantGet(p) ==
    /\ calls[p].pc = "grant_get"
    /\ LET c == [calls[p] EXCEPT !.reads = @ + 1] IN
       IF ~Exists(live, userRef(c.uid))
       THEN calls' = [calls EXCEPT ![p] = Finish(c, Err("User not found"))]
       ELSE calls' = [calls EXCEPT ![p] =
                        [c EXCEPT !.user = live[userRef(c.uid)],
                                  !.upd = GrantUpdates(c, live[userRef(c.uid)]),
                                  !.pc = "upd_get"]]
    /\ UNCHANGED <<live, durable, settings, now, nCalls, everHist, deleted, hadSettings, logs, ai, btn>>

\* sendInboxMessage lines 153-166: the first read, the message (Date.now(), then
\* new Date()), the new inbox, then updateUser
SendGet(p) ==
    /\ calls[p].pc = "send_get"
    /\ LET c == [calls[p] EXCEPT !.reads = @ + 1] IN
       IF ~Exists(live, userRef(c.uid))
       THEN /\ calls' = [calls EXCEPT ![p] = Finish(c, Err("User not found"))]
            /\ now' = now
       ELSE \E tId \in LaterReads(now) : \E tDate \in LaterReads(tId) :
            /\ calls' = [calls EXCEPT ![p] =
                           [c EXCEPT !.user = live[userRef(c.uid)],
                                     !.entry = InboxMessage(c.text, tId, tDate),
                                     !.upd = InboxUpdates(InboxMessage(c.text, tId, tDate),
                                                          live[userRef(c.uid)]),
                                     !.pc = "upd_get"]]
            /\ now' = tDate
    /\ UNCHANGED <<live, durable, settings, nCalls, everHist, deleted, hadSettings, logs, ai, btn>>

\* updateUser lines 73-77: the read of the live record and the merge
UpdGet(p) ==
    /\ calls[p].pc = "upd_get"
    /\ LET c == [calls[p] EXCEPT !.reads = @ + 1] IN
       IF ~Exists(live, userRef(c.uid))
       THEN calls' = [calls EXCEPT ![p] =
                        Finish(c, Err("Failed to update user: User not found"))]
       ELSE calls' = [calls EXCEPT ![p] =
                        [c EXCEPT !.cur = live[userRef(c.uid)],
                                  !.merged = Merge(live[userRef(c.uid)], c.upd),
                                  !.pc = "upd_save"]]
    /\ UNCHANGED <<live, durable, settings, now, nCalls, everHist, deleted, hadSettings, logs, ai, btn>>

\* updateUser lines 79-80 (and sendInboxMessage line 167): the write
UpdSave(p) ==
    /\ calls[p].pc = "upd_save"
    /\ live' = saveUserToLive(live, calls[p].merged)
    /\ everHist' = everHist \cup HistPairs(live')
    /\ calls' = [calls EXCEPT
                   ![p] = Finish([@ EXCEPT !.writes = @ + 1],
                                 IF @.op = "sendInboxMessage" THEN Ok("Message sent")
                                 ELSE Ok("User updated"))]
    /\ UNCHANGED <<durable, settings, now, nCalls, deleted, hadSettings, logs, ai, btn>>

\* getSettings lines 47-53
getSettings == IF settings = <<>> THEN <<>> ELSE <<settings[1]>>

\* a read that takes missing settings for the defaults and goes on to the write
SetGetCreates(p) ==
    /\ calls[p].pc = "set_get"
    /\ LET c == [calls[p] EXCEPT !.reads = @ + 1]
           current == IF getSettings = <<>> THEN <<Settings0>> ELSE getSettings IN
       calls' = [calls EXCEPT ![p] =
                   [c EXCEPT !.cur = current[1],
                             !.merged = Merge(current[1], c.upd),
                             !.pc = "set_save"]]
    /\ UNCHANGED <<live, durable, settings, now, nCalls, everHist, deleted, hadSettings, logs, ai, btn>>

\* updateSystemSettings lines 223-225
SetGet(p) ==
    /\ calls[p].pc = "set_get"
    /\ LET c == [calls[p] EXCEPT !.reads = @ + 1]
           current == getSettings IN
       IF current = <<>>
       THEN calls' = [calls EXCEPT ![p] =
                        Finish(c, Err("Failed to update settings: Settings not found"))]
       ELSE calls' = [calls EXCEPT ![p] =
                        [c EXCEPT !.cur = current[1],
                                  !.merged = Merge(current[1], c.upd),
                                  !.pc = "set_save"]]
    /\ UNCHANGED <<live, durable, settings, now, nCalls, everHist, deleted, hadSettings, logs, ai, btn>>

\* a write that applies the updates to the settings stored at the time of the
\* write (a transaction) instead of writing the record merged at the read
SetSaveOnStored(p) ==
    /\ calls[p].pc = "set_save"
    /\ settings' = saveSystemSettings(Merge(settings[1], calls[p].upd))
    /\ calls' = [calls EXCEPT
                   ![p] = Finish([@ EXCEPT !.writes = @ + 1], Ok("System Settings updated"))]
    /\ UNCHANGED <<live, durable, now, nCalls, everHist, deleted, hadSettings, logs, ai, btn>>

\* updateSystemSettings lines 226-227
SetSave(p) ==
    /\ calls[p].pc = "set_save"
    /\ settings' = saveSystemSettings(calls[p].merged)
    /\ calls' = [calls EXCEPT
                   ![p] = Finish([@ EXCEPT !.writes = @ + 1], Ok("System Settings updated"))]
    /\ UNCHANGED <<live, durable, now, nCalls, everHist, deleted, hadSettings, logs, ai, btn>>

----------------------------------------------------------------------------
(* Store calls that fail.  deleteDoc, remove, get and getDocs are promises    *)
(* of the store client: each either resolves or rejects.                    *)

\* deleteUser lines 59, 62-63: deleteDoc rejects; the catch rethrows, and the
\* remove of line 60 is not reached
DeleteDocFails(p) ==
    /\ calls[p].pc = "del_doc"
    /\ calls' = [calls EXCEPT
                   ![p] = Finish([@ EXCEPT !.tried = @ \cup {"deleteDoc"}],
                                 Err("Failed to delete user"))]
    /\ UNCHANGED <<live, durable, settings, now, nCalls, everHist, deleted, hadSettings, logs, ai, btn>>

\* deleteUser lines 60, 62-63: remove rejects after deleteDoc has resolved
RemoveLiveFails(p) ==
    /\ calls[p].pc = "del_rt"
    /\ calls' = [calls EXCEPT
                   ![p] = Finish([@ EXCEPT !.tried = @ \cup {"remove"}],
                                 Err("Failed to delete user"))]
    /\ UNCHANGED <<live, durable, settings, now, nCalls, everHist, deleted, hadSettings, logs, ai, btn>>

\* updateSystemSettings line 223 with getSettings line 52: the read rejects,
\* getSettings returns null, and the handler throws as for absent settings
SetGetFails(p) ==
    /\ calls[p].pc = "set_get"
    /\ calls' = [calls EXCEPT
                   ![p] = Finish([@ EXCEPT !.tried = @ \cup {"get failed"}],
                                 Err("Failed to update settings: Settings not found"))]
    /\ UNCHANGED <<live, durable, settings, now, nCalls, everHist, deleted, hadSettings, logs, ai, btn>>

----------------------------------------------------------------------------
(* broadcastMessage and createWeeklyTest.  A result with ok is a value the    *)
(* handler returned; a result without ok is an error it threw.               *)

Notices == {"exam on monday"}
TestNames == {"Algebra"}
Subjects == {"Math"}
QuestionCounts == {5, 10}

\* line 145: the field broadcastMessage sets
BroadcastUpdates(message) == [noticeText |-> message]

\* ActionRegistry.broadcastMessage(message)
InvokeBroadcastMessage(p) ==
    /\ \E m \in Notices :
         Start(p, [Idle EXCEPT !.op = "broadcastMessage", !.uid = SettingsKey,
                               !.text = m, !.pc = "bc_get"])
    /\ UNCHANGED <<live, durable, settings, now, everHist, deleted, hadSettings, logs, ai, btn>>

\* broadcastMessage lines 143-145 and 149
BcGet(p) ==
    /\ calls[p].pc = "bc_get"
    /\ LET c == [calls[p] EXCEPT !.reads = @ + 1]
           current == getSettings IN
       IF current = <<>>
       THEN calls' = [calls EXCEPT ![p] = Finish(c, Ok("Failed to fetch settings."))]
       ELSE calls' = [calls EXCEPT ![p] =
                        [c EXCEPT !.cur = current[1],
                                  !.upd = BroadcastUpdates(c.text),
                                  !.merged = Merge(current[1], BroadcastUpdates(c.text)),
                                  !.pc = "bc_save"]]
    /\ UNCHANGED <<live, durable, settings, now, nCalls, everHist, deleted, hadSettings, logs, ai, btn>>

\* a getSettings without its catch: the rejected read reaches the caller
BcGetFailsRaises(p) ==
    /\ calls[p].pc = "bc_get"
    /\ calls' = [calls EXCEPT
                   ![p] = Finish([@ EXCEPT !.tried = @ \cup {"get failed"}],
                                 Err("permission denied"))]
    /\ UNCHANGED <<live, durable, settings, now, nCalls, everHist, deleted, hadSettings, logs, ai, btn>>

\* broadcastMessage line 143 with getSettings line 52, then line 149: the read
\* rejects, getSettings returns null, and the failure string is returned
BcGetFails(p) ==
    /\ calls[p].pc = "bc_get"
    /\ calls' = [calls EXCEPT
                   ![p] = Finish([@ EXCEPT !.tried = @ \cup {"get failed"}],
                                 Ok("Failed to fetch settings."))]
    /\ UNCHANGED <<live, durable, settings, now, nCalls, everHist, deleted, hadSettings, logs, ai, btn>>

\* broadcastMessage lines 146-147
BcSave(p) ==
    /\ calls[p].pc = "bc_save"
    /\ settings' = saveSystemSettings(calls[p].merged)
    /\ calls' = [calls EXCEPT
                   ![p] = Finish([@ EXCEPT !.writes = @ + 1],
                                 Ok("Broadcast banner updated successfully."))]
    /\ UNCHANGED <<live, durable, now, nCalls, everHist, deleted, hadSettings, logs, ai, btn>>

\* settings.weeklyTests, undefined when the settings carry no such field
WeeklyTestsOf(s) == IF "weeklyTests" \in DOMAIN s THEN s.weeklyTests ELSE NoArray

\* lines 179-191
WeeklyTest(name, subject, questionCount, tId, tDate) ==
    [id |-> tId, name |-> name, description |-> subject, isActive |-> TRUE,
     classLevel |-> "10", questions |-> <<>>, totalQuestions |-> questionCount,
     passingScore |-> 40, createdAt |-> toISOString(DateAt(tDate)),
     durationMinutes |-> 60, selectedSubjects |-> <<subject>>]

\* the new test put before the list instead of after it
WeeklyTestUpdatesPrepends(test, s) ==
    [weeklyTests |-> Arr(<<test>> \o OrEmpty(WeeklyTestsOf(s)))]

\* lines 193-194: the field createWeeklyTest sets
WeeklyTestUpdates(test, s) ==
    [weeklyTests |-> Arr(OrEmpty(WeeklyTestsOf(s)) \o <<test>>)]

\* ActionRegistry.createWeeklyTest(name, subject, questionCount)
InvokeCreateWeeklyTest(p) ==
    /\ \E n \in TestNames, sub \in Subjects, q \in QuestionCounts :
         Start(p, [Idle EXCEPT !.op = "createWeeklyTest", !.uid = SettingsKey,
                               !.text = n, !.subject = sub, !.count = q,
                               !.pc = "wt_get"])
    /\ UNCHANGED <<live, durable, settings, now, everHist, deleted, hadSettings, logs, ai, btn>>

\* createWeeklyTest lines 176-193: the read, the test (Date.now(), then new Date()),
\* the new list
WtGet(p) ==
    /\ calls[p].pc = "wt_get"
    /\ LET c == [calls[p] EXCEPT !.reads = @ + 1]
           current == getSettings IN
       IF current = <<>>
       THEN /\ calls' = [calls EXCEPT ![p] = Finish(c, Err("Settings not found"))]
            /\ now' = now
       ELSE \E tId \in LaterReads(now) : \E tDate \in LaterReads(tId) :
            LET test == WeeklyTest(c.text, c.subject, c.count, tId, tDate) IN
            /\ calls' = [calls EXCEPT ![p] =
                           [c EXCEPT !.cur = current[1],
                                     !.entry = test,
                                     !.upd = WeeklyTestUpdates(test, current[1]),
                                     !.merged = Merge(current[1],
                                                      WeeklyTestUpdates(test, current[1])),
                                     !.pc = "wt_save"]]
            /\ now' = tDate
    /\ UNCHANGED <<live, durable, settings, nCalls, everHist, deleted, hadSettings, logs, ai, btn>>

\* createWeeklyTest lines 176-177 with getSettings line 52: the read rejects
WtGetFails(p) ==
    /\ calls[p].pc = "wt_get"
    /\ calls' = [calls EXCEPT
                   ![p] = Finish([@ EXCEPT !.tried = @ \cup {"get failed"}],
                                 Err("Settings not found"))]
    /\ UNCHANGED <<live, durable, settings, now, nCalls, everHist, deleted, hadSettings, logs, ai, btn>>

\* createWeeklyTest lines 194-195
WtSave(p) ==
    /\ calls[p].pc = "wt_save"
    /\ settings' = saveSystemSettings(calls[p].merged)
    /\ calls' = [calls EXCEPT
                   ![p] = Finish([@ EXCEPT !.writes = @ + 1], Ok("Weekly Test created"))]
    /\ UNCHANGED <<live, durable, now, nCalls, everHist, deleted, hadSettings, logs, ai, btn>>

CallBroadcastMessage(p) == Free(p) /\ InvokeBroadcastMessage(p)
CallCreateWeeklyTest(p) == Free(p) /\ InvokeCreateWeeklyTest(p)

----------------------------------------------------------------------------
(* scanUsers and getRecentLogs: the listing handlers. *)

Filters == {"ALL", "PREMIUM", "FREE", "INACTIVE"}

\* the order in which getDocs returns the documents of a collection: by id
UserOrder == <<"u1", "u2", "u3">>

\* line 39: querySnapshot.docs.map(doc => doc.data())
DocsOf(store) ==
    LET ids == SelectSeq(UserOrder, LAMBDA k : k \in DOMAIN store) IN
    [i \in 1..Len(ids) |-> store[ids[i]]]

\* the truth value of u.isPremium: undefined (no such field) is falsy
IsPremium(u) == "isPremium" \in DOMAIN u /\ u.isPremium = TRUE

\* new Date(isoString): the instant the string denotes
ParseDate(iso) == DateAt(iso.t)

\* the first day of the month before the month of day d (December of the year
\* before, for January)
PrevMonthStart(d) == IF MonthStart(d) = 0 THEN 0 - 31 ELSE MonthStart(MonthStart(d) - 1)

\* line 206, monthAgo.setMonth(monthAgo.getMonth() - 1): the same day of the
\* month and time of day in the month before; a day the month before does not
\* have runs over into the month after it (31 March gives 31 February, 3 March)
setMonthBack(t) ==
    (PrevMonthStart(Day(t)) + (getDate(t) - 1)) * TicksPerDay + TimeOfDay(t)

\* the test with <= : a user active exactly at the boundary counts as inactive
InactiveAtBoundary(u, monthAgo) ==
    \/ "lastActiveTime" \notin DOMAIN u
    \/ ParseDate(u.lastActiveTime).t <= monthAgo

\* line 207: !u.lastActiveTime || new Date(u.lastActiveTime) < monthAgo
Inactive(u, monthAgo) ==
    \/ "lastActiveTime" \notin DOMAIN u
    \/ ParseDate(u.lastActiveTime).t < monthAgo

\* FREE decided by the tier name instead of the premium flag
FreeByTier(u) == u.subscriptionTier = "FREE"

\* line 203: !u.isPremium
IsFree(u) == ~IsPremium(u)

\* line 210: the summary of a user
Summary(u) ==
    [id |-> u.id, name |-> u.name, email |-> u.email, role |-> u.role,
     credits |-> u.credits, tier |-> u.subscriptionTier]

\* lines 200-210: the filter (a filter that is none of the three keeps every
\* user), then the projection
ScanResult(users, filter, tNow) ==
    LET r1 == IF filter = "PREMIUM" THEN SelectSeq(users, IsPremium) ELSE users
        r2 == IF filter = "FREE" THEN SelectSeq(users, IsFree) ELSE r1
        r3 == IF filter = "INACTIVE"
              THEN SelectSeq(users, LAMBDA u : Inactive(u, setMonthBack(tNow)))
              ELSE r2 IN
    [i \in 1..Len(r3) |-> Summary(r3[i])]

\* ActionRegistry.scanUsers(filter)
InvokeScanUsers(p) ==
    /\ \E f \in Filters :
         Start(p, [Idle EXCEPT !.op = "scanUsers", !.filter = f, !.pc = "scan_get"])
    /\ UNCHANGED <<live, durable, settings, now, everHist, deleted, hadSettings, logs, ai, btn>>

\* scanUsers lines 199-210 with getAllUsers lines 38-39; line 205 reads the clock
ScanGet(p) ==
    /\ calls[p].pc = "scan_get"
    /\ calls' = [calls EXCEPT
                   ![p] = Finish([@ EXCEPT !.reads = @ + 1,
                                           !.tried = @ \cup {"getDocs"},
                                           !.out = ScanResult(DocsOf(durable), calls[p].filter, now)],
                                 Ok("scanUsers"))]
    /\ UNCHANGED <<live, durable, settings, now, nCalls, everHist, deleted, hadSettings, logs, ai, btn>>

\* a getAllUsers without its catch: the rejected read reaches the caller
ScanGetFailsRaises(p) ==
    /\ calls[p].pc = "scan_get"
    /\ calls' = [calls EXCEPT
                   ![p] = Finish([@ EXCEPT !.tried = @ \cup {"getDocs failed"}],
                                 Err("Error fetching users"))]
    /\ UNCHANGED <<live, durable, settings, now, nCalls, everHist, deleted, hadSettings, logs, ai, btn>>

\* scanUsers lines 199-210 with getAllUsers lines 40-42: getDocs rejects, the
\* helper returns [], and the filter and the projection run on no user
ScanGetFails(p) ==
    /\ calls[p].pc = "scan_get"
    /\ calls' = [calls EXCEPT
                   ![p] = Finish([@ EXCEPT !.tried = @ \cup {"getDocs failed"},
                                           !.out = ScanResult(<<>>, calls[p].filter, now)],
                                 Ok("scanUsers"))]
    /\ UNCHANGED <<live, durable, settings, now, nCalls, everHist, deleted, hadSettings, logs, ai, btn>>

\* line 213: limit: number = 20
DefaultLimit == 20

\* the limit argument as the caller passes it: left out, or a number
LimitArgs == {<<>>, <<1>>, <<2>>}

RECURSIVE orderByDesc(_)
\* orderBy("timestamp", "desc"): the entries from the newest to the oldest
orderByDesc(entries) ==
    IF entries = {} THEN <<>>
    ELSE LET newest == CHOOSE x \in entries :
                          \A y \in entries : y.timestamp.t <= x.timestamp.t IN
         <<newest>> \o orderByDesc(entries \ {newest})

\* limitToLast(n): the last n documents of the ordered query, in query order
limitToLast(ordered, n) ==
    IF Len(ordered) <= n THEN ordered
    ELSE SubSeq(ordered, Len(ordered) - n + 1, Len(ordered))

\* ActionRegistry.getRecentLogs(limit)
InvokeGetRecentLogs(p) ==
    /\ \E a \in LimitArgs :
         Start(p, [Idle EXCEPT !.op = "getRecentLogs",
                               !.limit = IF a = <<>> THEN DefaultLimit ELSE a[1],
                               !.pc = "logs_get"])
    /\ UNCHANGED <<live, durable, settings, now, everHist, deleted, hadSettings, logs, ai, btn>>

\* getRecentLogs lines 215-217
LogsGet(p) ==
    /\ calls[p].pc = "logs_get"
    /\ calls' = [calls EXCEPT
                   ![p] = Finish([@ EXCEPT !.reads = @ + 1,
                                           !.tried = @ \cup {"getDocs"},
                                           !.out = limitToLast(orderByDesc(logs), calls[p].limit)],
                                 Ok("getRecentLogs"))]
    /\ UNCHANGED <<live, durable, settings, now, nCalls, everHist, deleted, hadSettings, logs, ai, btn>>

\* getRecentLogs line 218: getDocs rejects and the catch returns []
LogsGetFails(p) ==
    /\ calls[p].pc = "logs_get"
    /\ calls' = [calls EXCEPT
                   ![p] = Finish([@ EXCEPT !.tried = @ \cup {"getDocs failed"}, !.out = <<>>],
                                 Ok("getRecentLogs"))]
    /\ UNCHANGED <<live, durable, settings, now, nCalls, everHist, deleted, hadSettings, logs, ai, btn>>

\* the keys of the ActionRegistry object, lines 234-246
ActionRegistryNames ==
    {"deleteUser", "updateUser", "banUser", "unbanUser", "grantSubscription",
     "broadcastMessage", "sendInboxMessage", "createWeeklyTest", "scanUsers",
     "getRecentLogs", "updateSystemSettings"}

\* the names the catalog adminTools declares, lines 249-403
adminToolNames ==
    {"deleteUser", "updateUser", "grantSubscription", "banUser", "unbanUser",
     "broadcastMessage", "sendInboxMessage", "createWeeklyTest", "scanUsers",
     "updateSystemSettings"}

\* operation names a caller may ask for that the registry does not hold
OtherNames == {"nonexistentOp"}

\* ActionRegistry[name](...) for a name that is no key of the object: the lookup
\* gives undefined and the call throws a TypeError; no handler runs
InvokeUnregistered(p) ==
    /\ \E n \in OtherNames \ ActionRegistryNames :
         Start(p, [Idle EXCEPT !.op = n, !.pc = "done",
                               !.result = Err("TypeError: not a function")])
    /\ UNCHANGED <<live, durable, settings, now, everHist, deleted, hadSettings, logs, ai, btn>>

CallScanUsers(p) == Free(p) /\ InvokeScanUsers(p)
CallGetRecentLogs(p) == Free(p) /\ InvokeGetRecentLogs(p)
CallUnregistered(p) == Free(p) /\ InvokeUnregistered(p)

----------------------------------------------------------------------------
(* Stores for the listing handlers. *)

\* a stored user as scanUsers sees it; prem and last say whether the optional
\* fields isPremium and lastActiveTime are there (last < 0: no lastActiveTime)
ScanUser(id, prem, last) ==
    LET base == [id |-> id, name |-> id, email |-> id, role |-> "STUDENT",
                 credits |-> 10, subscriptionTier |-> "MONTHLY", mobile |-> "0"]
        withPrem == IF prem = "absent" THEN base
                    ELSE Merge(base, [isPremium |-> (prem = "true")]) IN
    IF last < 0 THEN withPrem
    ELSE Merge(withPrem, [lastActiveTime |-> toISOString(DateAt(last))])

\* day numbers: 15 February, 1 March, 15 March, 31 March
Feb15 == 31 + 14
Mar01 == 31 + 28
Mar15 == 31 + 28 + 14
Mar31 == 31 + 28 + 30

\* the instants at which a scan runs: midnight of 15 March and of 31 March
ScanClocks == {Mar15 * TicksPerDay, Mar31 * TicksPerDay}

\* last-active instants: just before, at and just after midnight of 15 February,
\* and midnight of 1 March
LastTimes == {Feb15 * TicksPerDay - 1, Feb15 * TicksPerDay, Feb15 * TicksPerDay + 1,
              Mar01 * TicksPerDay}

\* the users collection: empty, u1 alone, or u1 and u2
ScanStores ==
    LET U1 == {ScanUser("u1", prem, last) :
                 prem \in {"true", "false"}, last \in LastTimes \cup {0 - 1}}
        U2 == {ScanUser("u2", prem, last) :
                 prem \in {"absent", "true"}, last \in {0 - 1, Feb15 * TicksPerDay}} IN
    {<<>>} \cup {[k \in {"u1"} |-> a] : a \in U1}
           \cup {[k \in {"u1", "u2"} |-> IF k = "u1" THEN a ELSE b] : a \in U1, b \in U2}

InitScan ==
    /\ live = InitUsers
    /\ durable \in ScanStores
    /\ settings = <<Settings0>>
    /\ now \in ScanClocks
    /\ calls = [p \in Procs |-> Idle]
    /\ nCalls = 0
    /\ everHist = HistPairs(InitUsers)
    /\ deleted = {}
    /\ hadSettings = TRUE
    /\ logs = Logs0
    /\ ai = NoAssistant
    /\ btn = SpeakButton

InitLogs ==
    /\ live = InitUsers
    /\ durable = InitUsers
    /\ settings = <<Settings0>>
    /\ now = StartClock
    /\ calls = [p \in Procs |-> Idle]
    /\ nCalls = 0
    /\ everHist = HistPairs(InitUsers)
    /\ deleted = {}
    /\ hadSettings = TRUE
    /\ logs \in SUBSET Logs0
    /\ ai = NoAssistant
    /\ btn = SpeakButton

----------------------------------------------------------------------------
(* StudentAiAssistant (src/unnamed/part_000): handleSend and what follows it. *)
(* user and settings are props: the values the parent passed at the last      *)
(* render, not the stored ones.                                               *)

MaxSends == 2

\* new Date().toISOString().split('T')[0]: the UTC calendar day of an instant
isoDate(t) == [kind |-> "isodate", day |-> Day(t)]

\* what the student may have typed into the input
Inputs == {"", " ", "q"}

\* String.prototype.trim over Inputs
trim(x) == IF x = " " THEN "" ELSE x

\* the counter kept although the date is another day
currentCountKeepsStale(user, today) ==
    IF "dailyAiCount" \in DOMAIN user THEN user.dailyAiCount ELSE 0

\* lines 48-53: user.dailyAiCount || 0, and 0 when user.dailyAiDate !== today
currentCount(user, today) ==
    IF "dailyAiDate" \in DOMAIN user /\ user.dailyAiDate = today
    THEN IF "dailyAiCount" \in DOMAIN user THEN user.dailyAiCount ELSE 0
    ELSE 0

\* x || d on a number: 0 and undefined (written 0) give the default
OrDefault(x, d) == IF x = 0 THEN d ELSE x

\* lines 55-66: the limit of the user's tier, overridden from settings.aiLimits
limit(user, st) ==
    IF st.defined /\ "aiLimits" \in DOMAIN st
    THEN IF ~user.isPremium THEN OrDefault(st.aiLimits.free, 5)
         ELSE IF user.subscriptionLevel = "BASIC" THEN OrDefault(st.aiLimits.basic, 50)
         ELSE OrDefault(st.aiLimits.ultra, 99999)
    ELSE IF user.isPremium
         THEN IF user.subscriptionLevel = "ULTRA" THEN 99999 ELSE 50
         ELSE 5

\* line 41: settings?.isAiEnabled === false
AiDisabled(st) == st.defined /\ "isAiEnabled" \in DOMAIN st /\ st.isAiEnabled = FALSE

\* lines 82-86: { ...user, dailyAiDate: today, dailyAiCount: currentCount + 1 }
updatedUser(user, today, count) ==
    Merge(user, [dailyAiDate |-> today, dailyAiCount |-> count + 1])

\* the student types
TypeInput ==
    /\ ai.user # NoRec
    /\ \E x \in Inputs \ {ai.input} : ai' = [ai EXCEPT !.input = x]
    /\ UNCHANGED <<live, durable, settings, now, calls, nCalls, everHist, deleted,
                   hadSettings, logs, btn>>

\* handleSend, lines 37-95, up to the await of generateCustomNotes: the guards,
\* the optimistic usage write (issued, not awaited) and the question sent
handleSend ==
    /\ ai.user # NoRec
    /\ ai.nSends < MaxSends
    /\ IF trim(ai.input) = "" \/ ai.isLoading
       THEN /\ ai' = [ai EXCEPT !.nSends = @ + 1, !.run = [NoRun EXCEPT !.outcome = "ignored"]]
            /\ now' = now
       ELSE IF AiDisabled(ai.settings)
       THEN /\ ai' = [ai EXCEPT !.nSends = @ + 1,
                                !.messages = Append(@, "disabled"),
                                !.run = [NoRun EXCEPT !.outcome = "disabled"]]
            /\ now' = now
       ELSE \E t \in LaterReads(now) :
              LET today == isoDate(t)
                  count == currentCount(ai.user, today)
                  lim == limit(ai.user, ai.settings) IN
              /\ now' = t
              /\ IF count >= lim
                 THEN ai' = [ai EXCEPT !.nSends = @ + 1,
                                       !.messages = Append(@, "limit"),
                                       !.run = [outcome |-> "limit", count |-> count,
                                                limit |-> lim]]
                 ELSE ai' = [ai EXCEPT !.nSends = @ + 1,
                                       !.messages = Append(@, "user"),
                                       !.input = "",
                                       !.isLoading = TRUE,
                                       !.pending = Append(@, updatedUser(ai.user, today, count)),
                                       !.sent = @ + 1,
                                       !.awaiting = TRUE,
                                       !.run = [outcome |-> "sent", count |-> count,
                                                limit |-> lim]]
    /\ UNCHANGED <<live, durable, settings, calls, nCalls, everHist, deleted,
                   hadSettings, logs, btn>>

\* line 87, fire and forget: the write of the whole snapshot reaches the store
\* (a write that is rejected is one that never takes this step)
UsageLands ==
    /\ ai.pending # <<>>
    /\ live' = saveUserToLive(live, Head(ai.pending))
    /\ everHist' = everHist \cup HistPairs(live')
    /\ ai' = [ai EXCEPT !.pending = Tail(@)]
    /\ UNCHANGED <<durable, settings, now, calls, nCalls, deleted, hadSettings, logs, btn>>

\* lines 95-109 and 113-115: the answer arrives, the interaction is saved
ChatResolves ==
    /\ ai.awaiting
    /\ \E t \in LaterReads(now) :
         /\ now' = t
         /\ logs' = logs \cup {LogEntry(t)}
    /\ ai' = [ai EXCEPT !.messages = Append(@, "ai"), !.awaiting = FALSE,
                        !.isLoading = FALSE]
    /\ UNCHANGED <<live, durable, settings, calls, nCalls, everHist, deleted,
                   hadSettings, btn>>

\* lines 111-115: generateCustomNotes rejects
ChatRejects ==
    /\ ai.awaiting
    /\ ai' = [ai EXCEPT !.messages = Append(@, "trouble"), !.awaiting = FALSE,
                        !.isLoading = FALSE]
    /\ UNCHANGED <<live, durable, settings, now, calls, nCalls, everHist, deleted,
                   hadSettings, logs, btn>>

\* the parent renders the assistant again with the stored user as the prop
Rerender ==
    /\ ai.user # NoRec
    /\ Exists(live, userRef(ai.user.id))
    /\ ai.user # live[userRef(ai.user.id)]
    /\ ai' = [ai EXCEPT !.user = live[userRef(ai.user.id)]]
    /\ UNCHANGED <<live, durable, settings, now, calls, nCalls, everHist, deleted,
                   hadSettings, logs, btn>>

\* the tiers of u1: free, basic, ultra, and premium without a level
AssistantTiers ==
    {[isPremium |-> FALSE, subscriptionLevel |-> "NONE"],
     [isPremium |-> TRUE, subscriptionLevel |-> "BASIC"],
     [isPremium |-> TRUE, subscriptionLevel |-> "ULTRA"],
     [isPremium |-> TRUE, subscriptionLevel |-> "NONE"]}

\* counters around the limits a tier can have (its default and its override)
UsageCounts(tier) ==
    IF ~tier.isPremium THEN {3, 4, 5}
    ELSE IF tier.subscriptionLevel = "BASIC" THEN {4, 49, 50}
    ELSE IF tier.subscriptionLevel = "ULTRA" THEN {6, 99999}
    ELSE {6, 50}

\* the usage fields of a stored user: of today or of the day before, or absent
UsageFields(tier) ==
    {[dailyAiCount |-> n, dailyAiDate |-> isoDate(StartClock - d * TicksPerDay)] :
        n \in UsageCounts(tier), d \in {0, 1}}
    \cup {[dailyAiCount |-> 5], [dailyAiDate |-> isoDate(StartClock)]}

\* u1 in each tier, with and without usage fields
AssistantUsers ==
    {Merge(User1, x) : x \in AssistantTiers}
    \cup UNION {{Merge(Merge(User1, x), f) : f \in UsageFields(x)} : x \in AssistantTiers}

\* the settings prop: none, no AI fields, AI disabled, limits set, limits all 0
AssistantSettings ==
    {NoSettings,
     [defined |-> TRUE],
     [defined |-> TRUE, isAiEnabled |-> FALSE],
     [defined |-> TRUE, isAiEnabled |-> TRUE,
      aiLimits |-> [free |-> 3, basic |-> 4, ultra |-> 6]],
     [defined |-> TRUE, aiLimits |-> [free |-> 0, basic |-> 0, ultra |-> 0]]}

\* the assistant mounted for u1 over a store that holds the user it was given
InitAssistant ==
    /\ \E u \in AssistantUsers :
         /\ live = Put(InitUsers, "u1", u)
         /\ durable = live
         /\ \E st \in AssistantSettings : ai = Assistant(u, st)
    /\ settings = <<Settings0>>
    /\ now = StartClock
    /\ calls = [p \in Procs |-> Idle]
    /\ nCalls = 0
    /\ everHist = HistPairs(InitUsers)
    /\ deleted = {}
    /\ hadSettings = TRUE
    /\ logs = Logs0
    /\ btn = SpeakButton

\* the assistant mounted for u1 while the registry runs
InitRace ==
    /\ live = InitUsers
    /\ durable = InitUsers
    /\ settings = <<Settings0>>
    /\ now = StartClock
    /\ calls = [p \in Procs |-> Idle]
    /\ nCalls = 0
    /\ everHist = HistPairs(InitUsers)
    /\ deleted = {}
    /\ hadSettings = TRUE
    /\ logs = Logs0
    /\ ai = [Assistant(User1, NoSettings) EXCEPT !.input = "q"]
    /\ btn = SpeakButton

----------------------------------------------------------------------------
(* SpeakButton (src/services/actionRegistry.ts, lines 406-442) over the       *)
(* speech engine of src/utils/textToSpeech.ts.  Time is counted in seconds.   *)

MaxClicks == 3
MaxSeconds == 7

\* line 428: setTimeout(..., 5000)
ResetDelay == 5

\* handleSpeak lines 420-422, the indicator is on: stopSpeech() cancels the
\* utterance, setIsSpeaking(false)
ClickStop ==
    /\ btn.isSpeaking
    /\ btn.clicks < MaxClicks
    /\ btn' = [btn EXCEPT !.clicks = @ + 1, !.utterance = 0, !.isSpeaking = FALSE,
                          !.on = 0, !.onAt = 0]
    /\ UNCHANGED <<live, durable, settings, now, calls, nCalls, everHist, deleted,
                   hadSettings, logs, ai>>

\* handleSpeak lines 423-425, the indicator is off: speakText cancels what is
\* spoken and awaits the voice
ClickSpeak ==
    /\ ~btn.isSpeaking
    /\ btn.clicks < MaxClicks
    /\ btn' = [btn EXCEPT !.clicks = @ + 1, !.utterance = 0,
                          !.resolving = @ \cup {[click |-> btn.clicks + 1, at |-> btn.t]}]
    /\ UNCHANGED <<live, durable, settings, now, calls, nCalls, everHist, deleted,
                   hadSettings, logs, ai>>

\* the pending speakText of click k, and the timer that click k set
ResolvingOf(k) == {r \in btn.resolving : r.click = k}
TimerOf(k) == {tm \in btn.timers : tm.click = k}

\* speakText of click k resolves (textToSpeech.ts line 92: the utterance is
\* spoken), then lines 425-428: setIsSpeaking(true) and the reset timer, which
\* nothing clears
SpeakResolves(k) ==
    /\ ResolvingOf(k) # {}
    /\ LET r == CHOOSE x \in ResolvingOf(k) : TRUE IN
       btn' = [btn EXCEPT !.resolving = @ \ {r}, !.utterance = k,
                          !.isSpeaking = TRUE, !.on = k, !.onAt = r.at,
                          !.timers = @ \cup {[click |-> k, due |-> btn.t + ResetDelay]}]
    /\ UNCHANGED <<live, durable, settings, now, calls, nCalls, everHist, deleted,
                   hadSettings, logs, ai>>

\* line 428: the callback of the timer of click k runs, setIsSpeaking(false)
TimerFires(k) ==
    /\ TimerOf(k) # {}
    /\ LET tm == CHOOSE x \in TimerOf(k) : TRUE IN
       /\ btn.t >= tm.due
       /\ btn' = [btn EXCEPT !.timers = @ \ {tm}, !.isSpeaking = FALSE,
                             !.on = 0, !.onAt = 0]
    /\ UNCHANGED <<live, durable, settings, now, calls, nCalls, everHist, deleted,
                   hadSettings, logs, ai>>

\* the engine comes to the end of the utterance; the button is not told
SpeechEnds ==
    /\ btn.utterance # 0
    /\ btn' = [btn EXCEPT !.utterance = 0]
    /\ UNCHANGED <<live, durable, settings, now, calls, nCalls, everHist, deleted,
                   hadSettings, logs, ai>>

\* a second passes; a timer that is due runs before the next one
Elapse ==
    /\ btn.t < MaxSeconds
    /\ \A tm \in btn.timers : tm.due > btn.t
    /\ btn' = [btn EXCEPT !.t = @ + 1]
    /\ UNCHANGED <<live, durable, settings, now, calls, nCalls, everHist, deleted,
                   hadSettings, logs, ai>>

----------------------------------------------------------------------------
(* Specifications. *)

\* every handler and every store call that may fail, by callers that invoke one
\* after another and side by side
Next ==
    \/ \E p \in Procs : CallDeleteUser(p)
    \/ \E p \in Procs : CallUpdateUser(p)
    \/ \E p \in Procs : CallBanUser(p)
    \/ \E p \in Procs : CallUnbanUser(p)
    \/ \E p \in Procs : CallGrantSubscription(p)
    \/ \E p \in Procs : CallSendInboxMessage(p)
    \/ \E p \in Procs : CallUpdateSystemSettings(p)
    \/ \E p \in Procs : DeleteDoc(p)
    \/ \E p \in Procs : RemoveLive(p)
    \/ \E p \in Procs : GrantGet(p)
    \/ \E p \in Procs : SendGet(p)
    \/ \E p \in Procs : UpdGet(p)
    \/ \E p \in Procs : UpdSave(p)
    \/ \E p \in Procs : SetGet(p)
    \/ \E p \in Procs : SetSave(p)
    \/ \E p \in Procs : CallBroadcastMessage(p)
    \/ \E p \in Procs : CallCreateWeeklyTest(p)
    \/ \E p \in Procs : CallScanUsers(p)
    \/ \E p \in Procs : CallGetRecentLogs(p)
    \/ \E p \in Procs : CallUnregistered(p)
    \/ \E p \in Procs : DeleteDocFails(p)
    \/ \E p \in Procs : RemoveLiveFails(p)
    \/ \E p \in Procs : SetGetFails(p)
    \/ \E p \in Procs : BcGet(p)
    \/ \E p \in Procs : BcGetFails(p)
    \/ \E p \in Procs : BcSave(p)
    \/ \E p \in Procs : WtGet(p)
    \/ \E p \in Procs : WtGetFails(p)
    \/ \E p \in Procs : WtSave(p)
    \/ \E p \in Procs : ScanGet(p)
    \/ \E p \in Procs : ScanGetFails(p)
    \/ \E p \in Procs : LogsGet(p)
    \/ \E p \in Procs : LogsGetFails(p)

Spec == Init /\ [][Next]_vars

\* the handlers that go through updateUser directly, and deleteUser
NextUpdate ==
    \/ \E p \in Procs : CallUpdateUser(p)
    \/ \E p \in Procs : CallBanUser(p)
    \/ \E p \in Procs : CallUnbanUser(p)
    \/ \E p \in Procs : CallDeleteUser(p)
    \/ \E p \in Procs : UpdGet(p)
    \/ \E p \in Procs : UpdSave(p)
    \/ \E p \in Procs : DeleteDoc(p)
    \/ \E p \in Procs : RemoveLive(p)

SpecUpdate == Init /\ [][NextUpdate]_vars

\* two callers, one grantSubscription each
NextGrant ==
    \/ \E p \in Procs : GrantOnce(p)
    \/ \E p \in Procs : GrantGet(p)
    \/ \E p \in Procs : UpdGet(p)
    \/ \E p \in Procs : UpdSave(p)

SpecGrant == Init /\ [][NextGrant]_vars

\* the writers of the inboxes and of the settings singleton
NextInbox ==
    \/ \E p \in Procs : CallSendInboxMessage(p)
    \/ \E p \in Procs : CallUpdateSystemSettings(p)
    \/ \E p \in Procs : SendGet(p)
    \/ \E p \in Procs : UpdGet(p)
    \/ \E p \in Procs : UpdSave(p)
    \/ \E p \in Procs : SetGet(p)
    \/ \E p \in Procs : SetSave(p)

SpecInbox == Init /\ [][NextInbox]_vars

\* deleteUser with store calls that may fail
NextDelete ==
    \/ \E p \in Procs : CallDeleteUser(p)
    \/ \E p \in Procs : DeleteDoc(p)
    \/ \E p \in Procs : DeleteDocFails(p)
    \/ \E p \in Procs : RemoveLive(p)
    \/ \E p \in Procs : RemoveLiveFails(p)

SpecDelete == Init /\ [][NextDelete]_vars

\* the handlers of the settings singleton, with reads that may fail
NextSettings ==
    \/ \E p \in Procs : CallBroadcastMessage(p)
    \/ \E p \in Procs : CallCreateWeeklyTest(p)
    \/ \E p \in Procs : CallUpdateSystemSettings(p)
    \/ \E p \in Procs : BcGet(p)
    \/ \E p \in Procs : BcGetFails(p)
    \/ \E p \in Procs : BcSave(p)
    \/ \E p \in Procs : WtGet(p)
    \/ \E p \in Procs : WtGetFails(p)
    \/ \E p \in Procs : WtSave(p)
    \/ \E p \in Procs : SetGet(p)
    \/ \E p \in Procs : SetGetFails(p)
    \/ \E p \in Procs : SetSave(p)

SpecSettings == Init /\ [][NextSettings]_vars

\* the handlers that write sub-records: tests into the settings, messages into
\* the inboxes, and broadcastMessage beside them
NextRecords ==
    \/ \E p \in Procs : CallCreateWeeklyTest(p)
    \/ \E p \in Procs : CallBroadcastMessage(p)
    \/ \E p \in Procs : CallSendInboxMessage(p)
    \/ \E p \in Procs : WtGet(p)
    \/ \E p \in Procs : WtSave(p)
    \/ \E p \in Procs : BcGet(p)
    \/ \E p \in Procs : BcSave(p)
    \/ \E p \in Procs : SendGet(p)
    \/ \E p \in Procs : UpdGet(p)
    \/ \E p \in Procs : UpdSave(p)

SpecRecords == Init /\ [][NextRecords]_vars

\* the listing handlers over drawn user collections and clocks
NextScan ==
    \/ \E p \in Procs : CallScanUsers(p)
    \/ \E p \in Procs : CallGetRecentLogs(p)
    \/ \E p \in Procs : ScanGet(p)
    \/ \E p \in Procs : ScanGetFails(p)
    \/ \E p \in Procs : LogsGet(p)
    \/ \E p \in Procs : LogsGetFails(p)

SpecScan == InitScan /\ [][NextScan]_vars

\* getRecentLogs over drawn log collections, and names the registry does not hold
NextLogs ==
    \/ \E p \in Procs : CallGetRecentLogs(p)
    \/ \E p \in Procs : CallUnregistered(p)
    \/ \E p \in Procs : LogsGet(p)
    \/ \E p \in Procs : LogsGetFails(p)

SpecLogs == InitLogs /\ [][NextLogs]_vars

\* banUser and unbanUser alone
NextBan ==
    \/ \E p \in Procs : CallBanUser(p)
    \/ \E p \in Procs : CallUnbanUser(p)
    \/ \E p \in Procs : UpdGet(p)
    \/ \E p \in Procs : UpdSave(p)

SpecBan == Init /\ [][NextBan]_vars

\* one invocation per caller: the two run side by side or one after the other
SendOnce(p) == FreeOnce(p) /\ InvokeSendInboxMessage(p)
BanOnce(p) == FreeOnce(p) /\ InvokeBanUser(p)
UnbanOnce(p) == FreeOnce(p) /\ InvokeUnbanUser(p)

\* the handlers that write a user without a direct updateUser call
NextSubscription ==
    \/ \E p \in Procs : GrantOnce(p)
    \/ \E p \in Procs : SendOnce(p)
    \/ \E p \in Procs : BanOnce(p)
    \/ \E p \in Procs : UnbanOnce(p)
    \/ \E p \in Procs : GrantGet(p)
    \/ \E p \in Procs : SendGet(p)
    \/ \E p \in Procs : UpdGet(p)
    \/ \E p \in Procs : UpdSave(p)

SpecSubscription == Init /\ [][NextSubscription]_vars

\* the assistant alone
NextAssistant ==
    \/ TypeInput
    \/ handleSend
    \/ UsageLands
    \/ ChatResolves
    \/ ChatRejects
    \/ Rerender

SpecAssistant == InitAssistant /\ [][NextAssistant]_vars

\* the assistant beside one registry call on a user
NextRace ==
    \/ handleSend
    \/ UsageLands
    \/ ChatResolves
    \/ ChatRejects
    \/ Rerender
    \/ GrantOnce("p1")
    \/ SendOnce("p1")
    \/ GrantGet("p1")
    \/ SendGet("p1")
    \/ UpdGet("p1")
    \/ UpdSave("p1")

SpecRace == InitRace /\ [][NextRace]_vars

\* the button mounted, the registry at rest
InitSpeak ==
    /\ live = InitUsers
    /\ durable = InitUsers
    /\ settings = <<Settings0>>
    /\ now = StartClock
    /\ calls = [p \in Procs |-> Idle]
    /\ nCalls = 0
    /\ everHist = HistPairs(InitUsers)
    /\ deleted = {}
    /\ hadSettings = TRUE
    /\ logs = Logs0
    /\ ai = NoAssistant
    /\ btn = SpeakButton

\* the button alone
NextSpeak ==
    \/ ClickStop
    \/ ClickSpeak
    \/ \E k \in 1..MaxClicks : SpeakResolves(k)
    \/ \E k \in 1..MaxClicks : TimerFires(k)
    \/ SpeechEnds
    \/ Elapse

SpecSpeak == InitSpeak /\ [][NextSpeak]_vars

----------------------------------------------------------------------------
(* The claims. *)

\* the step in which caller p, running handler op, completes the write of updateUser
Saves(p, op) ==
    calls[p].op = op /\ calls[p].pc = "upd_save" /\ calls'[p].pc = "done"

\* C1: updateUser(userId, updates) on an existing live record writes back a record
\* in which every field named in updates has the supplied value and every other
\* field has the value of the record that was read; the record read is the stored
\* one unless another invocation on the same user ran meanwhile.
C1_UpdateUserMerges ==
    [][\A p \in Procs :
         Saves(p, "updateUser") =>
            LET c == calls[p]
                w == live'[c.uid] IN
            /\ c.uid \in DOMAIN live'
            /\ DOMAIN w = DOMAIN c.cur \cup DOMAIN c.upd
            /\ \A f \in DOMAIN c.upd : w[f] = c.upd[f]
            /\ \A f \in DOMAIN c.cur \ DOMAIN c.upd : w[f] = c.cur[f]
            /\ c.overlap # "same" => (c.uid \in DOMAIN live /\ c.cur = live[c.uid])]_vars

\* C1 witness: updateUser(u1, {credits: 500}) has run: credits is 500, the rest is u1's
C1_Witness ==
    \E p \in Procs :
        /\ calls[p].pc = "done" /\ calls[p].op = "updateUser" /\ calls[p].result.ok
        /\ calls[p].uid = "u1" /\ "u1" \in DOMAIN live
        /\ live["u1"] = [User1 EXCEPT !.credits = 500]

UserWriteOps ==
    {"deleteUser", "updateUser", "banUser", "unbanUser", "grantSubscription",
     "sendInboxMessage"}

NotFound(r) ==
    ~r.ok /\ r.msg \in {"User not found", "Failed to update user: User not found"}

\* C2: a write handler called with a userId that has no record (u3 never has one)
\* fails with a not-found error and issues no write or delete to either store.
C2_NoRecordFailsWithoutWrite ==
    \A p \in Procs :
        (calls[p].pc = "done" /\ calls[p].op \in UserWriteOps /\ calls[p].uid = "u3")
            => (NotFound(calls[p].result) /\ calls[p].writes = 0)

PlanDays(plan) == IF plan = "WEEKLY" THEN 7 ELSE IF plan = "MONTHLY" THEN 30 ELSE 365

\* what the write of grantSubscription stores besides the end date: tier, level,
\* the premium flag, and one new administrative entry before the history it read
GrantStoresEntry(c, w) ==
    LET prev == OrEmpty(c.user.subscriptionHistory)
        hist == w.subscriptionHistory IN
    /\ w.subscriptionTier = c.plan
    /\ w.subscriptionLevel = c.level
    /\ w.isPremium = TRUE
    /\ hist.kind = "array"
    /\ Len(hist.items) = Len(prev) + 1
    /\ Tail(hist.items) = prev
    /\ Head(hist.items).tier = c.plan
    /\ Head(hist.items).isFree = TRUE
    /\ Head(hist.items).grantSource = "ADMIN"
    /\ Head(hist.items).price = 0

\* C3: grantSubscription with plan WEEKLY, MONTHLY or YEARLY on an existing user
\* stores an end date exactly 7, 30 or 365 days after the call time (the instant
\* the entry records as its start), with tier, level, premium flag and one new
\* entry before the previous history.
C3_GrantEndsExactlyDaysLater ==
    [][\A p \in Procs :
         (Saves(p, "grantSubscription") /\ calls[p].plan \in {"WEEKLY", "MONTHLY", "YEARLY"})
            => LET c == calls[p]
                   w == live'[c.uid] IN
               /\ w.subscriptionEndDate =
                     toISOString(DateAt(c.t0 + PlanDays(c.plan) * TicksPerDay))
               /\ GrantStoresEntry(c, w)]_vars

\* C4: grantSubscription with plan LIFETIME stores no subscriptionEndDate, whatever
\* end date the user had, and the new first entry's endDate is the sentinel
\* 'LIFETIME', not a date.
C4_LifetimeHasNoEndDate ==
    [][\A p \in Procs :
         (Saves(p, "grantSubscription") /\ calls[p].plan = "LIFETIME")
            => LET c == calls[p]
                   w == live'[c.uid] IN
               /\ w.subscriptionEndDate.kind = "undefined"
               /\ Head(w.subscriptionHistory.items) = c.entry
               /\ c.entry.endDate.kind = "LIFETIME"
               /\ c.entry.endDate.kind # "iso"]_vars

\* C4 witness: a LIFETIME grant on u1, which had an end date, has been written
C4_Witness ==
    \E p \in Procs :
        /\ calls[p].pc = "done" /\ calls[p].op = "grantSubscription" /\ calls[p].result.ok
        /\ calls[p].uid = "u1" /\ calls[p].plan = "LIFETIME" /\ "u1" \in DOMAIN live
        /\ User1.subscriptionEndDate.kind = "iso"
        /\ live["u1"].subscriptionTier = "LIFETIME"
        /\ live["u1"].subscriptionEndDate.kind = "undefined"
        /\ Head(live["u1"].subscriptionHistory.items).endDate.kind = "LIFETIME"

\* C5: sendInboxMessage(userId, text) on an existing user stores an inbox whose
\* element 0 is the new unread TEXT message, followed by the inbox it read (absent
\* read as empty) in the same order, one longer; the inbox read is the stored one
\* unless another invocation on the same user ran meanwhile.
C5_MessageIsPrepended ==
    [][\A p \in Procs :
         Saves(p, "sendInboxMessage") =>
            LET c == calls[p]
                prev == OrEmpty(c.user.inbox)
                inbox == live'[c.uid].inbox IN
            /\ inbox.kind = "array"
            /\ Len(inbox.items) = Len(prev) + 1
            /\ inbox.items[1].text = c.text
            /\ inbox.items[1].read = FALSE
            /\ inbox.items[1].type = "TEXT"
            /\ \A i \in 1..Len(prev) : inbox.items[i + 1] = prev[i]
            /\ c.overlap # "same" => c.user.inbox = live[c.uid].inbox]_vars

\* C5 witness: a message sent to u2, whose inbox was absent, and one sent to u1
C5_Witness ==
    /\ \A p \in Procs :
          calls[p].pc = "done" /\ calls[p].op = "sendInboxMessage" /\ calls[p].result.ok
    /\ calls["p1"].uid = "u1" /\ calls["p2"].uid = "u2"
    /\ User2.inbox.kind = "undefined"
    /\ Len(live["u2"].inbox.items) = 1 /\ live["u2"].inbox.items[1].text = "hi"
    /\ Len(live["u1"].inbox.items) = 2 /\ live["u1"].inbox.items[2] = OldMsg

\* C6: subscription history is append-only: every entry once stored in the history
\* of a user who still has a live record is still in that history, field for field.
C6_HistoryAppendOnly ==
    \A pair \in everHist :
        pair[1] \in DOMAIN live =>
            \E i \in 1..Len(OrEmpty(live[pair[1]].subscriptionHistory)) :
                OrEmpty(live[pair[1]].subscriptionHistory)[i] = pair[2]

\* what a grant running alone from record pre stores: the granted fields, and
\* every other field as it was
GrantAlone(c, pre, w) ==
    /\ w.subscriptionTier = c.plan
    /\ w.subscriptionLevel = c.level
    /\ w.subscriptionEndDate =
          (IF c.plan \in {"WEEKLY", "MONTHLY", "YEARLY"}
           THEN c.entry.endDate ELSE Undefined)
    /\ w.isPremium = TRUE
    /\ w.grantedByAdmin = TRUE
    /\ w.subscriptionHistory = Arr(<<c.entry>> \o OrEmpty(pre.subscriptionHistory))
    /\ \A f \in {"id", "name", "email", "role", "credits", "isLocked", "inbox"} :
          w[f] = pre[f]

\* C7: grantSubscription calls for two different users do not interfere, however
\* their reads and writes interleave: the write of a call that shared no user with
\* another call changes the live record of its own user only, and that record is
\* then what the grant running alone from the record at its start would store.
C7_GrantsOfDifferentUsers ==
    [][\A p \in Procs :
         (Saves(p, "grantSubscription") /\ calls[p].overlap # "same") =>
            LET c == calls[p] IN
            /\ DOMAIN live' = DOMAIN live
            /\ \A k \in DOMAIN live \ {c.uid} : live'[k] = live[k]
            /\ durable' = durable /\ settings' = settings
            /\ c.pre # <<>> /\ c.uid \in DOMAIN live'
            /\ GrantAlone(c, c.pre[1], live'[c.uid])]_vars

\* C7 witness: a grant for u1 and a grant for u2 ran side by side and both are stored
C7_Witness ==
    /\ \A p \in Procs :
          /\ calls[p].pc = "done" /\ calls[p].op = "grantSubscription"
          /\ calls[p].result.ok /\ calls[p].overlap = "other"
    /\ calls["p1"].uid = "u1" /\ calls["p2"].uid = "u2"
    /\ Len(live["u1"].subscriptionHistory.items) = 2
    /\ Len(live["u2"].subscriptionHistory.items) = 1

\* C8: last write wins, with no mutual exclusion: a write to a user record or to the
\* settings singleton stores exactly the record its writer merged from its own
\* earlier read, whatever the record holds at the time of the write.
C8_LastWriteWins ==
    [][\A p \in Procs :
         /\ (calls[p].pc = "upd_save" /\ calls'[p].pc = "done") =>
               LET c == calls[p] IN
               /\ c.uid \in DOMAIN live'
               /\ DOMAIN live'[c.uid] = DOMAIN c.cur
               /\ \A f \in DOMAIN c.cur :
                     live'[c.uid][f] = (IF f \in DOMAIN c.upd THEN c.upd[f] ELSE c.cur[f])
         /\ (calls[p].pc = "set_save" /\ calls'[p].pc = "done") =>
               LET c == calls[p] IN
               /\ settings' # <<>>
               /\ DOMAIN settings'[1] = DOMAIN c.cur
               /\ \A f \in DOMAIN c.cur :
                     settings'[1][f] = (IF f \in DOMAIN c.upd THEN c.upd[f] ELSE c.cur[f])]_vars

\* C8 witness: two messages were sent to u1 side by side, both calls succeeded, and
\* the stored inbox holds only one of them
C8_Witness ==
    /\ \A p \in Procs :
          /\ calls[p].pc = "done" /\ calls[p].op = "sendInboxMessage"
          /\ calls[p].result.ok /\ calls[p].uid = "u1" /\ calls[p].overlap = "same"
    /\ Len(live["u1"].inbox.items) = Len(User1.inbox.items) + 1

\* C9: the registry creates no root: a live user record exists only if it existed
\* before the registry ran and no remove has taken it away, and the settings
\* singleton exists only if it existed before.
C9_NoRootCreated ==
    /\ \A k \in DOMAIN live : k \in DOMAIN InitUsers /\ k \notin deleted
    /\ \A k \in DOMAIN durable : k \in DOMAIN InitUsers
    /\ settings # <<>> => hadSettings

\* a call the catalog's schema does not admit: a required userId left out, or a plan
\* or level outside the declared enum
Invalid(c) ==
    \/ c.op \in UserWriteOps /\ c.uid = MissingArg
    \/ c.op = "grantSubscription" /\ (c.plan \notin Plans \/ c.level \notin Levels)

\* C10: an invalid call has no side effect: it is rejected with InvalidArguments
\* before any store read or write.
C10_InvalidCallRejected ==
    \A p \in Procs :
        Invalid(calls[p]) =>
            /\ calls[p].reads = 0 /\ calls[p].writes = 0
            /\ calls[p].pc = "done" => calls[p].result = Err("InvalidArguments")

\* the failure of a call of a name for which there is no handler
UnknownOperation(r) == ~r.ok /\ r.msg = "TypeError: not a function"

\* C11: an operation name that is not in the catalog (adminTools) fails with
\* UnknownOperation and never reaches a handler: no store call is issued, nothing
\* is read and nothing is written.
C11_UnknownNameRejected ==
    \A p \in Procs :
        calls[p].op \notin adminToolNames \cup {"none"} =>
            /\ calls[p].pc = "done" /\ UnknownOperation(calls[p].result)
            /\ calls[p].reads = 0 /\ calls[p].writes = 0 /\ calls[p].tried = {}

\* C12: deleteUser is best-effort over both stores: it attempts the deletion of
\* the durable record and that of the live record, also when the first fails; it
\* returns success only when neither store holds the user, and fails when either
\* deletion throws.
C12_DeleteUserBestEffort ==
    \A p \in Procs :
        (calls[p].pc = "done" /\ calls[p].op = "deleteUser") =>
            /\ calls[p].tried = {"deleteDoc", "remove"}
            /\ calls[p].result.ok =>
                  /\ userRef(calls[p].uid) \notin DOMAIN durable
                  /\ userRef(calls[p].uid) \notin DOMAIN live
            /\ calls[p].writes < 2 => ~calls[p].result.ok

\* caller p, running handler op, takes the step that leaves position pc
Leaves(p, op, pc) ==
    calls[p].op = op /\ calls[p].pc = pc /\ calls'[p].pc # pc

\* C13: broadcastMessage(message): when the settings singleton cannot be read
\* (absent, or the read fails) it returns the failure string, raises nothing and
\* writes nothing; otherwise it writes back the settings it read with noticeText
\* equal to message and every other field unchanged, and returns the success
\* string.
C13_BroadcastMessage ==
    [][\A p \in Procs :
         LET c == calls[p]
             d == calls'[p] IN
         /\ (Leaves(p, "broadcastMessage", "bc_get")
               /\ (settings = <<>> \/ "get failed" \in d.tried)) =>
               /\ d.pc = "done"
               /\ d.result = [ok |-> TRUE, msg |-> "Failed to fetch settings."]
               /\ d.writes = 0
               /\ settings' = settings
         /\ (Leaves(p, "broadcastMessage", "bc_get")
               /\ ~(settings = <<>> \/ "get failed" \in d.tried)) =>
               /\ d.pc = "bc_save"
               /\ d.cur = settings[1]
               /\ settings' = settings
         /\ Leaves(p, "broadcastMessage", "bc_save") =>
               /\ d.pc = "done"
               /\ d.result = [ok |-> TRUE, msg |-> "Broadcast banner updated successfully."]
               /\ settings' # <<>>
               /\ DOMAIN settings'[1] = DOMAIN c.cur \cup {"noticeText"}
               /\ settings'[1].noticeText = c.text
               /\ \A f \in DOMAIN c.cur \ {"noticeText"} : settings'[1][f] = c.cur[f]]_vars

\* C13 witness: one broadcast has written the banner, the other fields being those
\* of the settings before, and another, whose read failed, returned the failure
\* string
C13_Witness ==
    /\ calls["p1"].pc = "done" /\ calls["p1"].op = "broadcastMessage"
    /\ calls["p1"].result.msg = "Broadcast banner updated successfully."
    /\ calls["p2"].pc = "done" /\ calls["p2"].op = "broadcastMessage"
    /\ calls["p2"].result = [ok |-> TRUE, msg |-> "Failed to fetch settings."]
    /\ "get failed" \in calls["p2"].tried /\ calls["p2"].writes = 0
    /\ settings = <<[Settings0 EXCEPT !.noticeText = "exam on monday"]>>

\* C14: updateSystemSettings(updates) on existing settings writes back a record in
\* which every field named in updates has the supplied value and every other field
\* keeps the value that was read; when the singleton is missing it fails with a
\* not-found error and writes nothing.
C14_UpdateSystemSettingsMerges ==
    [][\A p \in Procs :
         LET c == calls[p]
             d == calls'[p] IN
         /\ (Leaves(p, "updateSystemSettings", "set_get") /\ settings = <<>>) =>
               /\ d.pc = "done"
               /\ d.result = [ok |-> FALSE, msg |-> "Failed to update settings: Settings not found"]
               /\ d.writes = 0
               /\ settings' = <<>>
         /\ (Leaves(p, "updateSystemSettings", "set_get") /\ d.pc = "set_save") =>
               /\ settings # <<>> /\ d.cur = settings[1] /\ settings' = settings
         /\ Leaves(p, "updateSystemSettings", "set_save") =>
               /\ d.pc = "done" /\ d.result.ok
               /\ settings' # <<>>
               /\ DOMAIN settings'[1] = DOMAIN c.cur \cup DOMAIN c.upd
               /\ \A f \in DOMAIN c.upd : settings'[1][f] = c.upd[f]
               /\ \A f \in DOMAIN c.cur \ DOMAIN c.upd : settings'[1][f] = c.cur[f]]_vars

\* C14 witness: updateSystemSettings({noticeText, themeColor}) has been written:
\* the two fields have the new values and maintenanceMode the old one
C14_Witness ==
    \E p \in Procs :
        /\ calls[p].pc = "done" /\ calls[p].op = "updateSystemSettings"
        /\ calls[p].result.ok /\ calls[p].writes = 1
        /\ settings = <<[noticeText |-> "hello", maintenanceMode |-> FALSE,
                         themeColor |-> "red"]>>

\* C15: createWeeklyTest(name, subject, questionCount) on existing settings writes
\* back settings whose weeklyTests is the list that was read (absent read as
\* empty) followed by exactly one new test, with no questions and totalQuestions
\* equal to questionCount, every other settings field unchanged; when the
\* settings are missing it fails and writes nothing.
C15_CreateWeeklyTestAppends ==
    [][\A p \in Procs :
         LET c == calls[p]
             d == calls'[p] IN
         /\ (Leaves(p, "createWeeklyTest", "wt_get") /\ settings = <<>>) =>
               /\ d.pc = "done" /\ ~d.result.ok /\ d.writes = 0 /\ settings' = <<>>
         /\ (Leaves(p, "createWeeklyTest", "wt_get") /\ d.pc = "wt_save") =>
               /\ settings # <<>> /\ d.cur = settings[1] /\ settings' = settings
         /\ Leaves(p, "createWeeklyTest", "wt_save") =>
               LET prev == OrEmpty(WeeklyTestsOf(c.cur))
                   n == Len(prev) IN
               /\ d.pc = "done" /\ d.result.ok
               /\ settings' # <<>>
               /\ DOMAIN settings'[1] = DOMAIN c.cur \cup {"weeklyTests"}
               /\ settings'[1].weeklyTests.kind = "array"
               /\ Len(settings'[1].weeklyTests.items) = n + 1
               /\ \A i \in 1..n : settings'[1].weeklyTests.items[i] = prev[i]
               /\ settings'[1].weeklyTests.items[n + 1].name = c.text
               /\ settings'[1].weeklyTests.items[n + 1].questions = <<>>
               /\ settings'[1].weeklyTests.items[n + 1].totalQuestions = c.count
               /\ \A f \in DOMAIN c.cur \ {"weeklyTests"} : settings'[1][f] = c.cur[f]]_vars

\* C15 witness: two tests were created one after the other: the list holds the
\* first (5 questions asked for) and then the second (10), both without questions
C15_Witness ==
    /\ \A p \in Procs :
          /\ calls[p].pc = "done" /\ calls[p].op = "createWeeklyTest"
          /\ calls[p].result.ok /\ calls[p].overlap = "none"
    /\ calls["p1"].count = 5 /\ calls["p2"].count = 10
    /\ settings # <<>>
    /\ Len(WeeklyTestsOf(settings[1]).items) = 2
    /\ WeeklyTestsOf(settings[1]).items[1].totalQuestions = 5
    /\ WeeklyTestsOf(settings[1]).items[2].totalQuestions = 10
    /\ WeeklyTestsOf(settings[1]).items[2].questions = <<>>
    /\ settings[1].themeColor = Settings0.themeColor

\* the elements of sequence s are all elements of sequence t
AllIn(s, t) == \A i \in 1..Len(s) : \E j \in 1..Len(t) : t[j] = s[i]

\* C16: WeeklyTest and InboxMessage sub-records are never deleted: under every
\* interleaving of registry operations that delete no user, every test once written
\* to settings.weeklyTests and every message once written to a user's inbox is
\* still there, that is, no step takes one away.
C16_SubRecordsNeverDeleted ==
    [][/\ \A u \in DOMAIN live \cap DOMAIN live' :
             AllIn(OrEmpty(live[u].inbox), OrEmpty(live'[u].inbox))
       /\ (settings # <<>> /\ settings' # <<>>) =>
             AllIn(OrEmpty(WeeklyTestsOf(settings[1])),
                   OrEmpty(WeeklyTestsOf(settings'[1])))]_vars

\* the ids of a sequence of users or summaries
IdsOf(s) == {s[i].id : i \in 1..Len(s)}

\* a scanUsers call with the given filter that has returned after a read of the
\* users collection that succeeded
Scanned(c, filter) ==
    c.pc = "done" /\ c.op = "scanUsers" /\ c.filter = filter /\ "getDocs" \in c.tried

\* one calendar month before instant t: the same day of the month and time of day
\* in the month before, or that month's last day when it has no such day
MonthBefore(t) ==
    LET prevStart == PrevMonthStart(Day(t))
        prevLen == MonthStart(Day(t)) - prevStart
        day == IF getDate(t) <= prevLen THEN getDate(t) ELSE prevLen IN
    (prevStart + day - 1) * TicksPerDay + TimeOfDay(t)

\* C17: scanUsers('INACTIVE') returns exactly the users whose lastActiveTime is
\* absent or strictly older than now minus one month: a user active at the
\* boundary instant or later is not returned, and every other user is.
C17_InactiveIsOlderThanAMonth ==
    \A p \in Procs :
        Scanned(calls[p], "INACTIVE") =>
            IdsOf(calls[p].out) =
                {k \in DOMAIN durable :
                    \/ "lastActiveTime" \notin DOMAIN durable[k]
                    \/ durable[k].lastActiveTime.t < MonthBefore(now)}

SummaryFields == {"id", "name", "email", "role", "credits", "tier"}

\* C18: scanUsers applies one predicate and only projects: over one set of stored
\* users the PREMIUM result and the FREE result are disjoint and together hold
\* exactly the users of the ALL result, which are the stored users; every element
\* returned carries id, name, email, role, credits and tier and nothing else; and
\* scanUsers writes to no store.
C18_ScanPartitionsAndProjects ==
    [][\A p \in Procs :
         Leaves(p, "scanUsers", "scan_get") =>
            LET d == calls'[p] IN
            /\ live' = live /\ durable' = durable /\ settings' = settings /\ logs' = logs
            /\ d.pc = "done" /\ d.writes = 0
            /\ \A i \in 1..Len(d.out) : DOMAIN d.out[i] = SummaryFields
            /\ Scanned(d, "ALL") => IdsOf(d.out) = {durable[k].id : k \in DOMAIN durable}
            /\ \A q \in Procs \ {p}, f \in {"PREMIUM", "FREE"} :
                  (Scanned(d, f) /\ Scanned(calls'[q], CHOOSE g \in {"PREMIUM", "FREE"} : g # f)) =>
                     /\ IdsOf(d.out) \cap IdsOf(calls'[q].out) = {}
                     /\ IdsOf(d.out) \cup IdsOf(calls'[q].out) =
                           {durable[k].id : k \in DOMAIN durable}]_vars

\* C18 witness: over a collection of a premium user u1 and a user u2 without the
\* premium flag, PREMIUM has returned the summary of u1 and FREE that of u2
C18_Witness ==
    /\ Scanned(calls["p1"], "PREMIUM") /\ Scanned(calls["p2"], "FREE")
    /\ DOMAIN durable = {"u1", "u2"}
    /\ "isPremium" \notin DOMAIN durable["u2"] /\ "mobile" \in DOMAIN durable["u1"]
    /\ IdsOf(calls["p1"].out) = {"u1"} /\ IdsOf(calls["p2"].out) = {"u2"}
    /\ DOMAIN calls["p1"].out[1] = SummaryFields
    /\ calls["p1"].out[1].tier = durable["u1"].subscriptionTier

\* the timestamps of a sequence of log entries
StampsOf(s) == {s[i].timestamp.t : i \in 1..Len(s)}

\* C19: getRecentLogs(limit) returns at most limit entries, and they are the limit
\* entries of the collection with the greatest timestamps, ordered by timestamp
\* descending.
C19_RecentLogsAreNewest ==
    \A p \in Procs :
        (calls[p].pc = "done" /\ calls[p].op = "getRecentLogs"
            /\ "getDocs" \in calls[p].tried) =>
            LET out == calls[p].out
                all == {e.timestamp.t : e \in logs} IN
            /\ Len(out) <= calls[p].limit
            /\ Len(out) = IF Cardinality(logs) <= calls[p].limit
                          THEN Cardinality(logs) ELSE calls[p].limit
            /\ \A i \in 1..Len(out) : out[i] \in logs
            /\ \A i \in 1..Len(out) - 1 : out[i].timestamp.t > out[i + 1].timestamp.t
            /\ \A t \in StampsOf(out), u \in all \ StampsOf(out) : t > u

\* C20: scanUsers and getRecentLogs swallow store-read failures: when the read
\* fails, the call returns an empty sequence and raises nothing, for every filter
\* and every limit.
C20_ReadFailuresSwallowed ==
    [][\A p \in Procs :
         LET d == calls'[p] IN
         /\ (Leaves(p, "scanUsers", "scan_get") /\ "getDocs failed" \in d.tried) =>
               d.pc = "done" /\ d.result.ok /\ d.out = <<>>
         /\ (Leaves(p, "getRecentLogs", "logs_get") /\ "getDocs failed" \in d.tried) =>
               d.pc = "done" /\ d.result.ok /\ d.out = <<>>]_vars

\* C20 witness: over stored users and stored log entries, a scanUsers('ALL') and a
\* getRecentLogs whose reads failed have both returned the empty sequence
C20_Witness ==
    /\ calls["p1"].pc = "done" /\ calls["p1"].op = "scanUsers"
    /\ calls["p1"].filter = "ALL" /\ calls["p1"].tried = {"getDocs failed"}
    /\ calls["p1"].result.ok /\ calls["p1"].out = <<>>
    /\ calls["p2"].pc = "done" /\ calls["p2"].op = "getRecentLogs"
    /\ calls["p2"].tried = {"getDocs failed"}
    /\ calls["p2"].result.ok /\ calls["p2"].out = <<>>
    /\ DOMAIN durable # {} /\ logs # {}

\* C21: within one handler execution reads precede writes for the same record:
\* every write or delete a handler issues against a user record or the settings
\* singleton comes after a read of that record by the same execution.
C21_ReadsPrecedeWrites ==
    [][\A p \in Procs :
         (calls[p].pc # "idle" /\ calls'[p].op = calls[p].op
             /\ calls'[p].writes > calls[p].writes) => calls[p].reads > 0]_vars

\* the user fields other than the lock flag
OtherFields(u) == DOMAIN u \ {"isLocked"}

\* the write of banUser (locked = TRUE) or unbanUser (locked = FALSE) by caller p,
\* run without another invocation on the same user, sets the lock flag, keeps the
\* fields and the other values of the stored record, and changes nothing when the
\* flag already had that value
SetsLock(p, op, locked) ==
    (Saves(p, op) /\ calls[p].overlap # "same") =>
        LET uid == calls[p].uid IN
        /\ uid \in DOMAIN live /\ uid \in DOMAIN live'
        /\ live'[uid].isLocked = locked
        /\ DOMAIN live'[uid] = DOMAIN live[uid]
        /\ \A f \in OtherFields(live[uid]) : live'[uid][f] = live[uid][f]
        /\ \A k \in DOMAIN live \ {uid} : k \in DOMAIN live' /\ live'[k] = live[k]
        /\ live[uid].isLocked = locked => live' = live

\* C22: banUser(userId, reason) sets the lock flag to true and unbanUser(userId)
\* sets it to false; each leaves every other field of the user unchanged, whatever
\* the reason; applied to a record that already has the flag it changes nothing
\* (idempotent), and unbanUser after banUser leaves the flag false.
C22_BanUnbanSetLockFlag ==
    [][\A p \in Procs :
         SetsLock(p, "banUser", TRUE) /\ SetsLock(p, "unbanUser", FALSE)]_vars

\* C22 witness: banUser(u1, reason) and then unbanUser(u1) have run one after the
\* other: u1 is the initial record again, unlocked
C22_Witness ==
    /\ calls["p1"].op = "banUser" /\ calls["p1"].pc = "done" /\ calls["p1"].result.ok
    /\ calls["p1"].uid = "u1" /\ calls["p1"].text = "abuse"
    /\ calls["p2"].op = "unbanUser" /\ calls["p2"].pc = "done" /\ calls["p2"].result.ok
    /\ calls["p2"].uid = "u1" /\ calls["p2"].overlap = "none"
    /\ live["u1"] = User1

\* C24: the catalog and the registry name the same operations: every name declared
\* in adminTools is a key of ActionRegistry, and every handler the registry runs
\* for a caller has a descriptor in adminTools.
C24_CatalogMatchesRegistry ==
    /\ adminToolNames \subseteq ActionRegistryNames
    /\ \A p \in Procs :
          (calls[p].pc # "idle" /\ calls[p].op \in ActionRegistryNames)
              => calls[p].op \in adminToolNames

\* C25: after any interleaving of grantSubscription, sendInboxMessage, banUser and
\* unbanUser, a stored user whose subscription history is non-empty has the tier
\* and the level of the first history entry as subscriptionTier and
\* subscriptionLevel.
C25_HistoryHeadMatchesTier ==
    \A k \in DOMAIN live :
        LET h == OrEmpty(live[k].subscriptionHistory) IN
        h # <<>> => /\ h[1].tier = live[k].subscriptionTier
                    /\ h[1].level = live[k].subscriptionLevel

\* C25 witness: grantSubscription(u1, YEARLY, BASIC) and sendInboxMessage(u1) ran
\* side by side and both returned; the grant is the stored one
C25_Witness ==
    \E p, q \in Procs :
        /\ calls[p].op = "grantSubscription" /\ calls[p].pc = "done" /\ calls[p].result.ok
        /\ calls[p].uid = "u1" /\ calls[p].plan = "YEARLY" /\ calls[p].overlap = "same"
        /\ calls[q].op = "sendInboxMessage" /\ calls[q].pc = "done" /\ calls[q].result.ok
        /\ calls[q].uid = "u1"
        /\ live["u1"].subscriptionTier = "YEARLY"
        /\ OrEmpty(live["u1"].subscriptionHistory)[1].tier = "YEARLY"

\* the step in which handleSend runs
Sends == ai'.nSends = ai.nSends + 1

\* C23: handleSend forwards a question exactly when one was typed, no answer is
\* outstanding, AI is not disabled in settings and effectiveCount < limit, where
\* effectiveCount is the snapshot's dailyAiCount if its dailyAiDate is today and 0
\* otherwise; with the question it issues the usage write of the snapshot with
\* dailyAiCount = effectiveCount + 1 and dailyAiDate = today; when AI is disabled
\* or effectiveCount >= limit nothing is sent and no usage is written.
C23_SendEnforcesDailyLimit ==
    [][Sends =>
        LET u == ai.user
            today == isoDate(now')
            effectiveCount ==
                IF "dailyAiDate" \in DOMAIN u /\ u.dailyAiDate = today
                       /\ "dailyAiCount" \in DOMAIN u
                THEN u.dailyAiCount ELSE 0
            lim == limit(u, ai.settings)
            asked == trim(ai.input) # "" /\ ~ai.isLoading
            forwarded == ai'.sent = ai.sent + 1 IN
        /\ ai'.sent \in {ai.sent, ai.sent + 1}
        /\ forwarded <=> (asked /\ ~AiDisabled(ai.settings) /\ effectiveCount < lim)
        /\ forwarded =>
              /\ Len(ai'.pending) = Len(ai.pending) + 1
              /\ LET w == ai'.pending[Len(ai'.pending)] IN
                 /\ w.dailyAiCount = effectiveCount + 1
                 /\ w.dailyAiDate = today
                 /\ DOMAIN w = DOMAIN u \cup {"dailyAiCount", "dailyAiDate"}
                 /\ \A f \in DOMAIN u \ {"dailyAiCount", "dailyAiDate"} : w[f] = u[f]
        /\ ~forwarded => ai'.pending = ai.pending
        /\ live' = live]_vars

\* C23 witness: a basic user whose counter stands at the limit of 50 since the day
\* before asked a question: it was forwarded and the stored counter is 1, of today
C23_Witness ==
    /\ ai.run.outcome = "sent" /\ ai.sent = 1 /\ ai.pending = <<>>
    /\ "dailyAiCount" \in DOMAIN ai.user /\ ai.user.dailyAiCount = 50
    /\ "dailyAiDate" \in DOMAIN ai.user /\ ai.user.dailyAiDate # isoDate(now)
    /\ ai.user.isPremium /\ ai.user.subscriptionLevel = "BASIC"
    /\ ~("aiLimits" \in DOMAIN ai.settings)
    /\ live["u1"].dailyAiCount = 1 /\ live["u1"].dailyAiDate = isoDate(now)

\* C26: the assistant's usage write changes only dailyAiDate and dailyAiCount of
\* the stored user: on the step in which the write reaches the store, every other
\* field of the stored record keeps the value it had, whatever the registry wrote
\* since the assistant's user prop was taken.
C26_UsageWriteKeepsOtherFields ==
    [][(ai.pending # <<>> /\ ai'.pending = Tail(ai.pending) /\ live' # live) =>
         LET uid == Head(ai.pending).id IN
         /\ uid \in DOMAIN live /\ uid \in DOMAIN live'
         /\ \A f \in DOMAIN live[uid] \ {"dailyAiDate", "dailyAiCount"} :
               f \in DOMAIN live'[uid] /\ live'[uid][f] = live[uid][f]]_vars

\* C27: the speaking indicator turned on by a click stays on until a click stops
\* the speech or 5 seconds have passed since the click that turned it on: the
\* reset timer of an earlier click does not turn it off before.
C27_IndicatorStaysOn ==
    [][(btn.isSpeaking /\ ~btn'.isSpeaking) =>
         \/ btn'.clicks = btn.clicks + 1
         \/ btn.t >= btn.onAt + ResetDelay]_vars

====
